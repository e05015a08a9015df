CONSTANTS
  a = a  b = b  c = c  build = build  test = test  w1 = w1  w2 = w2
  Files = {a, b, c}
  Root = a
  Commands = {build, test}
  Configs <- MCConfigs
SPECIFICATION Spec
INVARIANTS ImportStackIsChain OptionsExpandImports
PROPERTIES ParseReturns
CHECK_DEADLOCK FALSE
