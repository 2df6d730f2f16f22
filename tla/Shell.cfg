SPECIFICATION FairSpec
CONSTANTS
  MAX_ARGS = 4
  EXECUTABLE <- MCExecutable
  SCRIPTS <- MCScripts
  BUFLEN = 13
  STACKS <- MCStacks
  PIPE_SIZE = 2
  MAX_OUTPUT = 3
  MAX_LINES = 4
INVARIANTS TypeOK LinesInOrder ArgsAreWords PipeIntact Foreground
PROPERTIES PromptReturns
