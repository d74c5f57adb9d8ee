SPECIFICATION ShellFairSpec
CONSTANTS
  MaxInput = 17
  ArgMax = 4
  Letters = {"a", "o"}
  Lines <- MCLines
  Builtins <- MCBuiltins
  OptStrings <- MCOptStrings
INVARIANTS
  ArgvIsWords
  OptionsAsTyped
PROPERTIES
  PromptAgain
