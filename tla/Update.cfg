SPECIFICATION Spec
CONSTANTS
  v1 = v1
  v2 = v2
  d1 = d1
  d2 = d2
  a1 = a1
  a2 = a2
  Installed = Installed
  None = None
  MaxRequests = 5
  Versions <- MCVersions
  Downloads <- MCDownloads
  Appliers <- MCAppliers
SYMMETRY MCSymmetry
INVARIANTS Recoverable AllOrNothing OneDownload  DownloadingIsTrue
CHECK_DEADLOCK FALSE
