SPECIFICATION Spec
CONSTANTS
  a1 = a1  a2 = a2  h1 = h1  c1 = c1  s1 = s1  s2 = s2  s3 = s3
  NoStream = NoStream  NoHost = NoHost  NoWrapper = NoWrapper
  Agents = {a1, a2}
  Hosts = {h1}
  Streams = {s1, s2, s3}
  Trusted = {a1}
  Callers = {c1}
  HostnameOf <- MCHostnameOf
  AgentOf <- MCAgentOf
  MaxBeats = 1
INVARIANTS
  TypeOK
  OnlyTrustedStreams
  NoDeadStream
  SendExclusion
