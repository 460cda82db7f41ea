SPECIFICATION FairMSpec
CONSTANTS
  p1 = p1  p2 = p2  p3 = p3  Nobody = Nobody
  Processes = {p1, p2, p3}
  FlagsOf <- MCFlagsOf
  Hosts = {"api", "custom"}
  DefaultHost = "api"
INVARIANTS OneManagerActive RunningIsUsable
PROPERTY ControllersGetToRun
