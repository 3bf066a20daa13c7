\* startOutbounds ends when it returns, a nil dereference in Close ends the process, and a file that a group
\* refuses keeps the service down.
SPECIFICATION Spec
CONSTANTS
  Interval = 2
  IdleTimeout = 3
  Toucher = {t1, t2}
  Loop = {l1, l2}
  ok = ok
  other = other
  bad = bad
  hollow = hollow
  selector = selector
  urltest = urltest
  Content = {ok, other, bad, hollow}
  Bad = {bad}
  Hollow = {hollow}
  NoContent = NoContent
  Empty = Empty
  Torn = Torn
  NoEtag = NoEtag
  Etagged = {ok, other, bad, hollow}
  Groups <- TwoGroups
  Rejects <- Refusing
  Updater = {u1, u2}
  MaxChanges = 3
  Given <- GivenTags
  Provided <- ProvidedTags
  Mentioned <- Dependable
  Numbered <- Numbers
  Labelled <- Labels
  NoTag <- None
INVARIANTS
  StartSound
  StartsWhatCan
  OneLoop
  ProviderSound
  ProviderOpen
PROPERTIES
  WorkEnds
  Converges
CHECK_DEADLOCK FALSE
