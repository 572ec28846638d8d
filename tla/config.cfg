\* Two options that a URI may give too and one that it may not, an external
\* transport, and URIs with and without path, port, user and password.
SPECIFICATION Spec
CONSTANTS
  Givable = {"scheme", "host", "username", "password", "if_name", "ext_transport"}
  Uris = {{"scheme", "host"},
          {"scheme", "host", "path", "port", "username"},
          {"scheme", "host", "username", "password"}}
INVARIANTS
  TypeOK
  NothingLost
  Merged
  TransportLives
