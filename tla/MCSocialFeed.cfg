SPECIFICATION Spec
CONSTANTS
  ann = ann
  ben = ben
  cel = cel
  dan = dan
  phone = phone
  laptop = laptop
  Users <- AllUsers
  Authors <- TwoAuthors
  Follows <- Graph
  Devices = {phone}
  Owner <- OneReader
  Limits = {2}
  Celebrities = {cel}
  MaxPosts = 3
  MaxDisturbances = 1
INVARIANTS Consistent
PROPERTIES CompleteTimeline NewestNeverGoesBack
