CONSTANTS
  p = p  q = q  rp = rp  rq = rq  f = f  g = g
  Programs = {p, q}
  Rules = {rp, rq}
  Covers <- RuleCovers
  ExactRule <- RuleOf
  Lines <- AllLines
  Stages <- Library
  WellFormed <- Sound
  Typed <- AllLines
  Files = {f, g}
  Script <- ScriptOf
  Cloth <- ClothOf
  MaxDepth = 8
SPECIFICATION Spec

PROPERTIES ClothFilesConfirmed
