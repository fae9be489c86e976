SPECIFICATION Spec
CONSTANTS
  ann = ann
  ben = ben
  cel = cel
  dan = dan
  phone = phone
  laptop = laptop
  Users <- AllUsers
  Authors <- TwoAuthors
  Follows <- Graph
  Devices = {phone, laptop}
  Owner <- OneEach
  Limits = {2}
  Celebrities = {cel}
  MaxPosts = 2
  MaxDisturbances = 0
PROPERTY NoDuplicates
