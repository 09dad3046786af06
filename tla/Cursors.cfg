SPECIFICATION CastSpec
CONSTANTS
  Events = {event, bot, moment}
  Shares = {first, second}
  Owner <- OneOwner
  Bot = {bot}
  Internal = {event, bot}
  Replayers = {r1, r2}
  Feeders = {f1, f2}
  Batch = 1
  Rounds = 2
  MaxTime = 2
  MaxFaults = 1
  None = None
INVARIANTS SentBehindCursor TriedBehindCursor
PROPERTIES EverythingHandedOver
