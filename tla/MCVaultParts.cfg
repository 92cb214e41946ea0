SPECIFICATION FairSpec
CONSTANTS
 Parts = {"task line", "task board", "recurrence", "sections", "memory", "properties", "link rewrites", "link index", "body tags", "chunks", "search", "recall", "setup"}
 TaskLines <- MCTaskLineConstants
 Boards <- MCBoardConstants
 Occurrences <- MCOccurrenceConstants
 Patches <- MCSectionConstants
 Memory <- MCMemoryConstants
 Properties <- MCPropertyConstants
 Rewrites <- MCRewriteConstants
 Index <- MCIndexConstants
 Parses <- MCTagConstants
 Chunks <- MCChunkConstants
 Searches <- MCSearchConstants
 Recalls <- MCRecallConstants
 SignIns <- MCSignInConstants
 n1 = n1
 n2 = n2
 a = a
 b = b
 pdf = pdf
 r1 = r1
 r2 = r2
 NoFileThere = NoFileThere
 AnyFile = AnyFile
 NoForm = NoForm
INVARIANTS
 TaskEditsAreExact
 OccurrencesStepByTheRule
 NoteEditsKeepTheRest
 LinksKeepLeading
 SearchesMissOnlyTheCrowded
 SignInsAreForOneTry
 IndexFollowsTheFiles
PROPERTY
 BodiesAreIndexed
CHECK_DEADLOCK FALSE
