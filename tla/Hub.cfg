\* Two streams of one or two agents, one request, channels of one event.
CONSTANTS
  Agents = {alice, bob}
  Requests = {r1}
  Streams = {s1, s2}
  Capacity = 1
  Nobody = Nobody
SPECIFICATION FairSpec
INVARIANTS TypeOK NoPanic LiveStreamsMissNothing RevokedHaveNoSubscribers
  RegistryIsLive
PROPERTIES RevokedStreamsEnd
CHECK_DEADLOCK FALSE
CONSTRAINT Representative
