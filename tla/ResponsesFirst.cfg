\* FirstResponseWins; or, in its place, INVARIANTS OthersAreTold, or
\* PROPERTIES WebhooksNeverFail.
SPECIFICATION Spec
CONSTANTS
  Device = {d1, d2}
  Target = {d1, d2}
  Action = {yes}
  BadAction = bad
  Webhook = {w1}
  Malformed = {w1}
  Nobody = Nobody
  Request = {1, 2}
  MaxFaults = 0
INVARIANTS
  FirstResponseWins
CHECK_DEADLOCK FALSE
