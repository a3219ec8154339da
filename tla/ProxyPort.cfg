SPECIFICATION FairSpec
CONSTANTS
  IntMax = 2
  Host = {"a", "b"}
  Port = {"80", "8080"}
  server_url_ = "a"
  server_port_num = "8080"
  MaxRedirects = 1
INVARIANT AsksNamedServer
CHECK_DEADLOCK FALSE
