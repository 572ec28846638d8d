\* A bare URI, one with a user too, and the fields that such a URI also has.
SPECIFICATION Spec
CONSTANTS
  Givable = {"scheme", "host", "username"}
  Uris = {{"scheme", "host"}, {"scheme", "host", "username"}}
INVARIANTS
  UriOverrides
