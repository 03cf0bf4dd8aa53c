CONSTANTS
  ask = ask
  note = note
  prompt = prompt
  other = other
  Asks = {ask}
  Notes = {note}
  Prompts = {prompt}
  Values = {yes}
  Own = own
  Channels <- MCChannels
  MaxOutput = 1
  MaxAnswers = 1
SPECIFICATION FairSpec
INVARIANT StoredIsWhatHappened
INVARIANT TranscriptReads
INVARIANT RowTellsTheTruth
INVARIANT SupersededBySomething
PROPERTY RunSettles
PROPERTY ImplementsRecord
CHECK_DEADLOCK FALSE
