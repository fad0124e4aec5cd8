SPECIFICATION Spec
CONSTANTS
  Tasks = {t1, t2}
  Issuers = {"i1", "malformed"}
  BadUrls = {"malformed"}
  Uris = {"uri1", "uri2"}
  CacheTtl = 2
  Timeout = 1
  None = None
INVARIANT
  KeysFromUri
