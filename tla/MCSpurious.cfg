CONSTANTS
  MaxFailures = 2
  Backends = {"pam", "pwent", "helper"}
  MaxMessages = 2
  MaxInput = 3
  MaxSpurious = 1
SPECIFICATION SpuriousSpec
INVARIANTS
  BlocksUntilAnswered
