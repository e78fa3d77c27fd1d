SPECIFICATION Spec
CONSTANTS
  Requests = {r1}
  Nobody = nobody
  Defaults = {"add"}
  Others = {}
  Programs <- MCRubyPrograms
  Installed = {"python", "javascript", "ruby"}
CHECK_DEADLOCK FALSE
INVARIANTS RunsAsRequested
