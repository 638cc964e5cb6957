\* Two addresses of which a connection uses one, and a service that goes through
\* four versions (so that its object can be deleted, recreated and changed) while
\* Build, the informer and the subscriber run. All stops when the service has
\* gone through its versions.
SPECIFICATION FairSpec
CONSTANTS
  Ip = {a, b}
  SubsetSize = 1
  Schemes = {"direct", "discov", "k8s"}
  MaxVersions = 4
INVARIANTS
  TypeOK
  MirrorsInformer
  PublishedFollows
  LatestUnlessOvertaken
PROPERTIES
  EventuallyCurrent
  ImplementsFeed
CHECK_DEADLOCK FALSE
