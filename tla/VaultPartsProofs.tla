-------------------------- MODULE VaultPartsProofs --------------------------
(* Theorems about VaultParts: in a behaviour of a part, what PartTheorems proves  *)
(* of the part's module holds.                                                    *)
EXTENDS VaultParts, TLAPS

\* A behaviour is of one part throughout.
LEMMA SetupStays == Spec => [](part = "setup") \/ [](part /= "setup")
<1>1. part = "setup" /\ [Next]_vars => (part = "setup")'
  BY DEF Next, vars
<1>2. part /= "setup" /\ [Next]_vars => (part /= "setup")'
  BY DEF Next, vars
<1>3. part = "setup" \/ part /= "setup"
  OBVIOUS
<1> QED
  BY <1>1, <1>2, <1>3, PTL DEF Spec

LEMMA TagsStay == Spec => [](part = "body tags") \/ [](part /= "body tags")
<1>1. part = "body tags" /\ [Next]_vars => (part = "body tags")'
  BY DEF Next, vars
<1>2. part /= "body tags" /\ [Next]_vars => (part /= "body tags")'
  BY DEF Next, vars
<1>3. part = "body tags" \/ part /= "body tags"
  OBVIOUS
<1> QED
  BY <1>1, <1>2, <1>3, PTL DEF Spec

LEMMA RecallStays == Spec => [](part = "recall") \/ [](part /= "recall")
<1>1. part = "recall" /\ [Next]_vars => (part = "recall")'
  BY DEF Next, vars
<1>2. part /= "recall" /\ [Next]_vars => (part /= "recall")'
  BY DEF Next, vars
<1>3. part = "recall" \/ part /= "recall"
  OBVIOUS
<1> QED
  BY <1>1, <1>2, <1>3, PTL DEF Spec

LEMMA IndexStays == Spec => [](part = "link index") \/ [](part /= "link index")
<1>1. part = "link index" /\ [Next]_vars => (part = "link index")'
  BY DEF Next, vars
<1>2. part /= "link index" /\ [Next]_vars => (part /= "link index")'
  BY DEF Next, vars
<1>3. part = "link index" \/ part /= "link index"
  OBVIOUS
<1> QED
  BY <1>1, <1>2, <1>3, PTL DEF Spec

LEMMA RewritesStay == Spec => [](part = "link rewrites") \/ [](part /= "link rewrites")
<1>1. part = "link rewrites" /\ [Next]_vars => (part = "link rewrites")'
  BY DEF Next, vars
<1>2. part /= "link rewrites" /\ [Next]_vars => (part /= "link rewrites")'
  BY DEF Next, vars
<1>3. part = "link rewrites" \/ part /= "link rewrites"
  OBVIOUS
<1> QED
  BY <1>1, <1>2, <1>3, PTL DEF Spec

\* The behaviours of the part "setup" are those of SetupMode.
LEMMA SetupBehaviours == Spec /\ [](part = "setup") => Part!Setup!Spec
<1>1. Init /\ part = "setup" => Part!Setup!Init
  BY DEF Init
<1>2. part = "setup" /\ [Next]_vars => [Part!Setup!Next]_(Part!Setup!vars)
  BY DEF Next, vars, Part!Setup!vars, Part!Setup!containerVars, Part!Setup!formVars,
         Part!Setup!diskVars
<1> QED
  BY <1>1, <1>2, PTL DEF Spec, Part!Setup!Spec

\* Those of the part "body tags" are those of BodyTags.
LEMMA TagBehaviours == Spec /\ [](part = "body tags") => Part!Tags!Spec
<1>1. Init /\ part = "body tags" => Part!Tags!Init
  BY DEF Init
<1>2. part = "body tags" /\ [Next]_vars => [Part!Tags!Next]_(Part!Tags!vars)
  BY DEF Next, vars, Part!Tags!vars, Part!Tags!indexVars, Part!Tags!passVars,
         Part!Tags!diskVars, Part!Tags!threadVars, Part!Tags!parserVars
<1> QED
  BY <1>1, <1>2, PTL DEF Spec, Part!Tags!Spec

\* Those of the part "recall" are those of MemoryRecall.
LEMMA RecallBehaviours == Spec /\ [](part = "recall") => Part!Recall!Spec
<1>1. Init /\ part = "recall" => Part!Recall!Init
  BY DEF Init
<1>2. part = "recall" /\ [Next]_vars => [Part!Recall!Next]_(Part!Recall!vars)
  BY DEF Next, vars, Part!Recall!vars, Part!Recall!indexVars, Part!Recall!recallVars
<1> QED
  BY <1>1, <1>2, PTL DEF Spec, Part!Recall!Spec

\* Those of the part "link index" are those of LinkIndex.
LEMMA IndexBehaviours == Spec /\ [](part = "link index") => Part!Links!Spec
<1>1. Init /\ part = "link index" => Part!Links!Init
  BY DEF Init
<1>2. part = "link index" /\ [Next]_vars => [Part!Links!Next]_(Part!Links!vars)
  BY DEF Next, vars, Part!Links!vars
<1> QED
  BY <1>1, <1>2, PTL DEF Spec, Part!Links!Spec

\* Those of the part "link rewrites" are those of LinkRewrites.
LEMMA RewriteBehaviours == Spec /\ [](part = "link rewrites") => Part!Move!Spec
<1>1. Init /\ part = "link rewrites" => Part!Move!Init
  BY DEF Init
<1>2. part = "link rewrites" /\ [Next]_vars => [Part!Move!Next]_(Part!Move!vars)
  BY DEF Next, vars, Part!Move!vars
<1> QED
  BY <1>1, <1>2, PTL DEF Spec, Part!Move!Spec

-----------------------------------------------------------------------------

\* A sign-in's code is tried once and in time, and the token is whole whenever the
\* container dies (setup-routes.ts, sync-token-store.ts).
THEOREM SignInsAreTriedOnce == Spec => []SignInsAreForOneTry
<1>1. Part!Setup!Spec => []Part!Setup!CodesAreForOneTry
  BY Part!CodesAreTriedOnce, SetupAssumption
<1>2. Part!Setup!Spec => []Part!Setup!TokenIsWhole
  BY Part!TokenStaysWhole, SetupAssumption
<1>3. Part!Setup!CodesAreForOneTry /\ Part!Setup!TokenIsWhole => SignInsAreForOneTry
  BY DEF SignInsAreForOneTry
<1>4. part /= "setup" => SignInsAreForOneTry
  BY DEF SignInsAreForOneTry
<1> QED
  BY <1>1, <1>2, <1>3, <1>4, SetupStays, SetupBehaviours, PTL

\* The tags of the index are those of the body it holds, a latest body is on its way to
\* it, and parses never overlap (search-index.ts, body-tag-parser.ts); a memory file's
\* rows are its entries, a vector is of what its row says, and a row without one has a
\* job to embed it (upsertMemoryEntries, embedMemoryEntriesForFile).
THEOREM IndexIsOfTheFiles == Spec => []IndexFollowsTheFiles
<1>1. Part!Tags!Spec => []Part!Tags!TagsAreOfTheIndexedBody
  BY Part!TagsAreOfTheBody, TagAssumption
<1>2. Part!Tags!Spec => []Part!Tags!LatestBodyIsOnItsWay
  BY Part!LatestBodyIsNotLost, TagAssumption
<1>3. Part!Tags!Spec => []Part!Tags!ParsesNeverOverlap
  BY Part!ParsesAreSerial, TagAssumption
<1>4. Part!Recall!Spec => []Part!Recall!EntriesMatchTheFiles
  BY Part!RowsAreTheEntries, RecallAssumption
<1>5. /\ Part!Tags!TagsAreOfTheIndexedBody /\ Part!Tags!LatestBodyIsOnItsWay
      /\ Part!Tags!ParsesNeverOverlap /\ part /= "recall"
      => IndexFollowsTheFiles
  BY DEF IndexFollowsTheFiles
<1>6. Part!Recall!EntriesMatchTheFiles /\ part /= "body tags" => IndexFollowsTheFiles
  BY DEF IndexFollowsTheFiles
<1>7. part /= "body tags" /\ part /= "recall" => IndexFollowsTheFiles
  BY DEF IndexFollowsTheFiles
<1>8. part = "body tags" => part /= "recall"
  OBVIOUS
<1> QED
  BY <1>1, <1>2, <1>3, <1>4, <1>5, <1>6, <1>7, <1>8, TagsStay, RecallStays,
     TagBehaviours, RecallBehaviours, PTL

\* Whatever is moved, a rewritten link leads to the file it led to (note-mover.ts).  Link
\* rows kept up to date note by note (search-index.ts) leave no link unresolved that a note
\* or file answers, unless its text is itself a path, as is that of a link whose note was
\* removed; and the queries over the rows agree with one another.
THEOREM LinksLeadOn == Spec => []LinksKeepLeading
<1>1. Part!Move!Spec => []Part!Move!LinksLeadToTheSameFile
  BY Part!RewritesKeepLinks, RewriteAssumption
<1>2. Part!Links!Spec => []Part!Links!NoForwardReferenceIsMissed
  BY Part!ForwardReferencesAreTakenOver, LinkAssumption
<1>3. Part!Links!Spec => []Part!Links!QueriesAgree
  BY Part!LinkQueriesAgree, LinkAssumption
<1>4. Part!Move!LinksLeadToTheSameFile /\ part /= "link index" => LinksKeepLeading
  BY DEF LinksKeepLeading
<1>5. /\ Part!Links!NoForwardReferenceIsMissed /\ Part!Links!QueriesAgree
      /\ part /= "link rewrites"
      => LinksKeepLeading
  BY DEF LinksKeepLeading
<1>6. part /= "link rewrites" /\ part /= "link index" => LinksKeepLeading
  BY DEF LinksKeepLeading
<1>7. part = "link rewrites" => part /= "link index"
  OBVIOUS
<1> QED
  BY <1>1, <1>2, <1>3, <1>4, <1>5, <1>6, <1>7, IndexStays, RewritesStay,
     IndexBehaviours, RewriteBehaviours, PTL
=============================================================================
