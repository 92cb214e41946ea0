------------------------------ MODULE SetupMode ------------------------------
(* Setup mode: the /setup routes that sign the server in to Obsidian Sync from  *)
(* the browser (setup/setup-routes.ts, sync-token-store.ts), the exit that hands *)
(* the container over to a normal boot (setup-server.ts, svc-vault-mcp/finish)   *)
(* and the boot's choice between the two (init-check-auth, init-obsidian-login). *)
(*                                                                              *)
(* An action runs from one await to the next.  The token is staged and renamed:  *)
(* a path leads to a file, and a handle opened on a path stays with that file.   *)
(* The MCP token is right in every form (a wrong one is answered at once).       *)
EXTENDS Naturals, FiniteSets

CONSTANTS
    Requests,       \* forms that may be in flight at once
    None,
    TTL,            \* PENDING_SIGN_IN_TTL_MINUTES
    MaxTime, MaxForms, MaxBoots   \* bounds

VARIABLES
    now,
    server,         \* "booting", "setup", "halting" or "serving"
    boots,
    requests,       \* request -> what its handler waits for, with what it holds
    pending,        \* pendingSignIns: form -> when it expires
    forms,          \* code forms handed out so far
    paths,          \* "staging" and "token" -> the file there, or None
    contents,       \* file -> "empty" or "whole"
    since,          \* history: form -> when its password was accepted
    tries,          \* history: codes sent on to Obsidian, [form, at]
    published,      \* history: a sign-in's token was renamed into place
    overlapped      \* history: two sign-ins wrote at once

diskVars == <<paths, contents, overlapped, published>>
formVars == <<pending, forms, since, tries>>
containerVars == <<server, boots>>
vars == <<now, containerVars, requests, formVars, diskVars>>

Idle == [at |-> "idle", form |-> 0, expires |-> 0, file |-> 0]
\* As many files as paths and handles can lead to.
Files == 1 .. (Cardinality(Requests) + 2)

Init ==
    /\ now = 0 /\ server = "booting" /\ boots = 1
    /\ requests = [r \in Requests |-> Idle]
    /\ pending = <<>> /\ forms = 0
    /\ contents = [f \in Files |-> "whole"]
    /\ paths \in {[staging |-> None, token |-> f] : f \in {None, 1}}
    /\ since = <<>> /\ tries = {} /\ published = FALSE
    /\ overlapped = FALSE

At(r, place) == server = "setup" /\ requests[r].at = place
Goto(r, place) == requests' = [requests EXCEPT ![r] = [Idle EXCEPT !.at = place]]
Done(r) == requests' = [requests EXCEPT ![r] = Idle]

-----------------------------------------------------------------------------
(* The forms                                                                    *)

\* The sign-in form: the handler awaits Obsidian's answer to email and password.
SubmitSignIn(r) ==
    /\ At(r, "idle")
    /\ Goto(r, "signing-in")
    /\ UNCHANGED <<now, containerVars, formVars, diskVars>>

\* Mutant: a wrong code starts a new five minutes.
FreshDeadline(inherited) == now + TTL

\* A form replacing one whose code was wrong keeps that one's deadline.
Deadline(inherited) == IF inherited = None THEN now + TTL ELSE inherited

\* storePendingSignIn, for a sign-in accepted at `start`: nothing is kept for a
\* deadline that has passed, though the page is shown all the same.
StorePending(r, inherited, start) ==
    /\ forms < MaxForms
    /\ forms' = forms + 1
    /\ since' = [f \in 1 .. forms' |-> IF f = forms' THEN start ELSE since[f]]
    /\ pending' = IF Deadline(inherited) <= now THEN pending
                  ELSE [f \in DOMAIN pending \union {forms'} |->
                           IF f = forms' THEN Deadline(inherited) ELSE pending[f]]

\* The password was right: on to the preflight, or to the form for the code.
SignInAccepted(r) ==
    /\ At(r, "signing-in")
    /\ Goto(r, "preflight")
    /\ UNCHANGED <<now, containerVars, formVars, diskVars>>

CodeRequired(r) ==
    /\ At(r, "signing-in")
    /\ StorePending(r, None, now)
    /\ Done(r)
    /\ UNCHANGED <<now, containerVars, tries, diskVars>>

SignInFails(r) ==
    /\ \E place \in {"signing-in", "checking-code"} : At(r, place)
    /\ Done(r)
    /\ UNCHANGED <<now, containerVars, formVars, diskVars>>

Without(f) == [g \in DOMAIN pending \ {f} |-> pending[g]]

\* consumePendingSignIn deletes what it reads.
Consumed(f) == Without(f)

\* The code form: its pending sign-in is used up, whatever comes of it.
SubmitCode(r, f) ==
    /\ At(r, "idle")
    /\ pending' = IF f \in DOMAIN pending THEN Consumed(f) ELSE pending
    /\ IF f \in DOMAIN pending /\ pending[f] > now
       THEN /\ requests' = [requests EXCEPT ![r] = [@ EXCEPT !.at = "checking-code",
                                                             !.form = f, !.expires = pending[f]]]
            /\ tries' = tries \union {[form |-> f, at |-> now, by |-> r]}
       ELSE UNCHANGED <<requests, tries>>
    /\ UNCHANGED <<now, containerVars, forms, since, diskVars>>

CodeAccepted(r) ==
    /\ At(r, "checking-code")
    /\ Goto(r, "preflight")
    /\ UNCHANGED <<now, containerVars, formVars, diskVars>>

\* A new form for the same password, under the old deadline.
CodeWrong(r) ==
    /\ At(r, "checking-code")
    /\ StorePending(r, requests[r].expires, since[requests[r].form])
    /\ Done(r)
    /\ UNCHANGED <<now, containerVars, tries, diskVars>>

\* The timer deletes a pending sign-in that ran out.
Expire(f) ==
    /\ f \in DOMAIN pending /\ pending[f] <= now
    /\ pending' = Without(f)
    /\ UNCHANGED <<now, containerVars, requests, forms, since, tries, diskVars>>

-----------------------------------------------------------------------------
(* The preflight and the token                                                  *)

\* The preflight finds that the next boot would fail on the settings.  When
\* Obsidian cannot be reached to ask, the sign-in goes on.
Blocked(r) ==
    /\ At(r, "preflight")
    /\ Done(r)
    /\ UNCHANGED <<now, containerVars, formVars, diskVars>>

Writing == {r \in Requests : requests[r].at \in {"writing", "renaming"}}

\* The path the token is written to before it is published.
StagingPath == "staging"

\* Nothing is in the way: the directory, then writeFile's open, which truncates
\* what is there.
OpenStaging(r) ==
    LET fresh == paths[StagingPath] = None
        unused == Files \ ({paths[p] : p \in DOMAIN paths} \union {requests[q].file : q \in Requests})
        file == IF fresh THEN CHOOSE f \in unused : \A g \in unused : f <= g
                ELSE paths[StagingPath]
    IN /\ At(r, "preflight")
       /\ contents' = [contents EXCEPT ![file] = "empty"]
       /\ paths' = [paths EXCEPT ![StagingPath] = file]
       /\ requests' = [requests EXCEPT ![r] = [@ EXCEPT !.at = "writing", !.file = file]]
       /\ overlapped' = (overlapped \/ Writing /= {})
       /\ UNCHANGED <<now, containerVars, formVars, published>>

Write(r) ==
    /\ At(r, "writing")
    /\ contents' = [contents EXCEPT ![requests[r].file] = "whole"]
    /\ requests' = [requests EXCEPT ![r] = [@ EXCEPT !.at = "renaming"]]
    /\ UNCHANGED <<now, containerVars, formVars, paths, overlapped, published>>

\* rename: whatever file is at the staging path becomes the token.
Rename(r) ==
    /\ At(r, "renaming") /\ paths[StagingPath] /= None
    /\ paths' = [p \in DOMAIN paths |->
                    IF p = "token" THEN paths[StagingPath]
                    ELSE IF p = StagingPath THEN None ELSE paths[p]]
    /\ published' = TRUE
    /\ Goto(r, "responding")
    /\ UNCHANGED <<now, containerVars, formVars, contents, overlapped>>

\* Another sign-in's rename took the staging file, or the disk fails: a 500.
WriteFails(r) ==
    /\ \/ At(r, "preflight")
       \/ At(r, "writing")
       \/ At(r, "renaming") /\ paths[StagingPath] = None
    /\ Done(r)
    /\ UNCHANGED <<now, containerVars, formVars, diskVars>>

-----------------------------------------------------------------------------
(* The container                                                                *)

\* What a process that ends takes with it.
ProcessEnds ==
    /\ requests' = [r \in Requests |-> Idle]
    /\ pending' = <<>>

TokenPresent == paths["token"] /= None /\ contents[paths["token"]] /= "empty"

\* The completion page is delivered, or its reader is gone: the process exits 0,
\* and the finish script halts the container if there is a token to boot with.
\* Otherwise s6 starts the setup server again.
Close(r) ==
    /\ At(r, "responding")
    /\ server' = IF TokenPresent THEN "halting" ELSE "setup"
    /\ ProcessEnds
    /\ UNCHANGED <<now, boots, forms, since, tries, diskVars>>

\* Stopped or killed at any moment, and booted again by the restart policy.
Restart ==
    /\ server /= "booting" /\ boots < MaxBoots
    /\ server' = "booting" /\ boots' = boots + 1
    /\ ProcessEnds
    /\ UNCHANGED <<now, forms, since, tries, diskVars>>

\* init-check-auth and init-obsidian-login, with no token in the environment: a
\* saved one that Obsidian refuses, or cannot be asked about, leads to /setup.
Boot ==
    /\ server = "booting"
    /\ server' \in IF TokenPresent THEN {"serving", "setup"} ELSE {"setup"}
    /\ UNCHANGED <<now, boots, requests, formVars, diskVars>>

Tick ==
    /\ now < MaxTime
    /\ now' = now + 1
    /\ UNCHANGED <<containerVars, requests, formVars, diskVars>>

Next ==
    \/ \E r \in Requests :
          \/ SubmitSignIn(r) \/ SignInAccepted(r) \/ CodeRequired(r) \/ SignInFails(r)
          \/ CodeAccepted(r) \/ CodeWrong(r) \/ Blocked(r)
          \/ OpenStaging(r) \/ Write(r) \/ Rename(r) \/ WriteFails(r) \/ Close(r)
          \/ \E f \in 1 .. forms : SubmitCode(r, f)
    \/ \E f \in 1 .. forms : Expire(f)
    \/ Restart \/ Boot \/ Tick

Spec == Init /\ [][Next]_vars

-----------------------------------------------------------------------------
(* Properties                                                                   *)

\* However often a code is mistyped, every code sent on to Obsidian went with a
\* form of its own, and within five minutes of the password.
CodesAreForOneTry ==
    /\ \A t \in tries : t.at < since[t.form] + TTL
    /\ \A t, u \in tries : t.form = u.form => t = u

\* A token is on the volume whole or not at all, whenever the process dies; and a
\* container halted for a finished sign-in has one.  The exception is two sign-ins
\* that write at once, which share the staging file.
TokenIsWhole ==
    ~overlapped =>
        /\ paths["token"] /= None => contents[paths["token"]] = "whole"
        /\ published \/ server \in {"halting", "serving"} => TokenPresent
=============================================================================
