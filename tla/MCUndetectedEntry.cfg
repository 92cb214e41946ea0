SPECIFICATION Spec
CONSTANTS
 Parts = {"memory"}
 TaskLines <- MCTaskLineConstants
 Boards <- MCBoardConstants
 Occurrences <- MCOccurrenceConstants
 Patches <- MCSectionConstants
 Memory <- MCCommentConstants
 Properties <- MCPropertyConstants
 Rewrites <- MCRewriteConstants
 Index <- MCIndexConstants
 Parses <- MCTagConstants
 Chunks <- MCChunkConstants
 Searches <- MCSearchConstants
 Recalls <- MCRecallConstants
 SignIns <- MCSignInConstants
 n1 = n1
 n2 = n2
 a = a
 b = b
 pdf = pdf
 r1 = r1
 r2 = r2
 NoFileThere = NoFileThere
 AnyFile = AnyFile
 NoForm = NoForm
INVARIANTS
 RetriesAreSafe
CHECK_DEADLOCK FALSE
