------------------------------- MODULE Session -------------------------------
(***************************************************************************)
(* The session-termination protocol and the dirty-state tracker of         *)
(* bottle-create.js: the global isFormDirty flag, the beforeunload guard,  *)
(* the final SAVE branch of onSubmit (XHR POST to the page address),       *)
(* onDiscard (XHR POST /discard) and the visibilitychange listener         *)
(* (navigator.sendBeacon('/discard')).                                     *)
(*                                                                         *)
(* The draft itself is abstracted to a version number: every handler that *)
(* mutates a collection bumps it.  Handlers are grouped by what they do to *)
(* isFormDirty: the ADD/SAVE buttons go through onSubmit, which sets the   *)
(* flag first; updateAuthor/updateSource set it on success; the delete and *)
(* cancel handlers never touch it.                                         *)
(*                                                                         *)
(* The backing process (not in this repository) is modelled from the spec: *)
(* it answers a commit with 200 (and stops) or with an error status, stops *)
(* on a discard, and once stopped every request fails at the transport.   *)
(* Requests and responses travel on separate connections, so they are     *)
(* kept in a set and delivered in any order; beacons may be lost.         *)
(***************************************************************************)
EXTENDS Naturals, FiniteSets

CONSTANTS
    MaxEdits,     \* bound on draft mutations
    MaxRequests,  \* bound on XHRs the page opens (saves and discards)
    MaxHides      \* bound on the page being hidden (tab switches)

VARIABLES
    isFormDirty,  \* the global flag of line 2
    draft,        \* version of the in-memory draft
    visibility,   \* document.visibilityState
    page,         \* "open", or how the page went away
    closable,     \* whether the browser honours window.close() for this tab
    xhrs,         \* outstanding XMLHttpRequests, request or response leg
    nextId,       \* id of the next XHR
    beacons,      \* sendBeacon('/discard') requests in flight
    server,       \* the backing process: "running", "saved" or "discarded"
    savedSnap,    \* the draft version the backing process accepted
    banner,       \* submitErrorDiv is shown
    hides,        \* number of hidden transitions so far
    commits,      \* commit requests the page has sent
    discards,     \* discard notifications the page has sent (POST or beacon)
    accepted,     \* the page has handled a 200 for a commit
    discardClicked, \* the user pressed the discard button
    leaveConfirmed, \* the user confirmed the beforeunload prompt
    beaconLost      \* some beacon was lost in transit

vars == <<isFormDirty, draft, visibility, page, closable, xhrs, nextId,
          beacons, server, savedSnap, banner, hides, commits, discards,
          accepted, discardClicked, leaveConfirmed, beaconLost>>

Status == {"pending", "ok", "fail", "neterr"}

Xhr == [id: 1..MaxRequests, kind: {"commit", "discard"},
        snap: 0..MaxEdits, status: Status]

TypeOK ==
    /\ isFormDirty \in BOOLEAN
    /\ draft \in 0..MaxEdits
    /\ visibility \in {"visible", "hidden"}
    /\ page \in {"open", "scriptClosed", "userClosed"}
    /\ closable \in BOOLEAN
    /\ xhrs \subseteq Xhr
    /\ nextId \in 1..MaxRequests + 1
    /\ beacons \in 0..MaxHides + 1
    /\ server \in {"running", "saved", "discarded"}
    /\ savedSnap \in 0..MaxEdits
    /\ banner \in BOOLEAN
    /\ hides \in 0..MaxHides
    /\ commits \in 0..MaxRequests
    /\ discards \in 0..MaxRequests + MaxHides + 1
    /\ accepted \in BOOLEAN
    /\ discardClicked \in BOOLEAN
    /\ leaveConfirmed \in BOOLEAN
    /\ beaconLost \in BOOLEAN

\* The page is loaded clean and visible; the draft as served is version 0.
\* Whether window.close() works is the browser's decision for this tab.
Init ==
    /\ isFormDirty = FALSE
    /\ draft = 0
    /\ visibility = "visible"
    /\ page = "open"
    /\ closable \in BOOLEAN
    /\ xhrs = {}
    /\ nextId = 1
    /\ beacons = 0
    /\ server = "running"
    /\ savedSnap = 0
    /\ banner = FALSE
    /\ hides = 0
    /\ commits = 0
    /\ discards = 0
    /\ accepted = FALSE
    /\ discardClicked = FALSE
    /\ leaveConfirmed = FALSE
    /\ beaconLost = FALSE

Open == page = "open"

\* The user can only press a control of an open, visible page.
UserCanClick == Open /\ visibility = "visible"

-----------------------------------------------------------------------------
(* Leaving the page.  Unloading a visible document fires visibilitychange  *)
(* with state "hidden", and the listener sends a beacon.                   *)

\* Mutant: the beacon sent from the visibilitychange listener only, not
\* from the hidden transition of an unload.
UnloadNoBeacon(how) ==
    /\ page' = how
    /\ UNCHANGED <<beacons, discards>>
    /\ visibility' = "hidden"

Unload(how) ==
    /\ page' = how
    /\ beacons' = IF visibility = "visible" THEN beacons + 1 ELSE beacons
    /\ discards' = IF visibility = "visible" THEN discards + 1 ELSE discards
    /\ visibility' = "hidden"

\* window.close() from a callback: ignored unless the tab is script
\* closable; otherwise beforeunload runs with the flag as it is now, and a
\* dirty page asks the user, who may stay.
WindowClose(dirtyNow) ==
    \/ /\ ~closable \/ dirtyNow
       /\ UNCHANGED <<page, beacons, discards, visibility, leaveConfirmed>>
    \/ /\ closable
       /\ ~dirtyNow
       /\ Unload("scriptClosed")
       /\ UNCHANGED leaveConfirmed
    \/ /\ closable
       /\ dirtyNow
       /\ Unload("scriptClosed")
       /\ leaveConfirmed' = TRUE

-----------------------------------------------------------------------------
(* Editing handlers, abstracted to their effect on the draft and the flag. *)

\* onSubmit with an ADD/SAVE submitter: isFormDirty is set before the
\* collection handler runs; that handler's validation may reject the input.
SubmitEdit ==
    /\ UserCanClick
    /\ draft < MaxEdits
    /\ isFormDirty' = TRUE
    /\ draft' \in {draft, draft + 1}
    /\ UNCHANGED <<beaconLost, visibility, page, closable, xhrs, nextId, beacons, server,
                   savedSnap, banner, hides, commits, discards, accepted,
                   discardClicked, leaveConfirmed>>

\* onclick handlers that mutate a collection without touching the flag:
\* deleteAuthor, deleteAuthorUpdate, editAuthor, deleteSource,
\* deleteSourceUpdate, editSource, deleteLabel, deleteAnnotations,
\* deleteMetric, deletePartLabel.
ClickDelete ==
    /\ UserCanClick
    /\ draft < MaxEdits
    /\ draft' = draft + 1
    /\ UNCHANGED <<beaconLost, isFormDirty, visibility, page, closable, xhrs, nextId,
                   beacons, server, savedSnap, banner, hides, commits,
                   discards, accepted, discardClicked, leaveConfirmed>>

\* updateAuthor / updateSource after their validation passed.
ClickUpdate ==
    /\ UserCanClick
    /\ draft < MaxEdits
    /\ draft' = draft + 1
    /\ isFormDirty' = TRUE
    /\ UNCHANGED <<beaconLost, visibility, page, closable, xhrs, nextId, beacons, server,
                   savedSnap, banner, hides, commits, discards, accepted,
                   discardClicked, leaveConfirmed>>

-----------------------------------------------------------------------------
(* Termination paths.                                                      *)

\* The final else branch of onSubmit: flag set, document assembled from the
\* current draft, POST sent.  Nothing stops a second click.
ClickSave ==
    /\ UserCanClick
    /\ nextId <= MaxRequests
    /\ isFormDirty' = TRUE
    /\ xhrs' = xhrs \cup {[id |-> nextId, kind |-> "commit", snap |-> draft,
                           status |-> "pending"]}
    /\ nextId' = nextId + 1
    /\ commits' = commits + 1
    /\ UNCHANGED <<beaconLost, draft, visibility, page, closable, beacons, server,
                   savedSnap, banner, hides, discards, accepted,
                   discardClicked, leaveConfirmed>>

\* Mutant: a callback that reacts to a successful status only.
CommitDoneOnlyOk(x) ==
    /\ Open
    /\ x.kind = "commit"
    /\ x.status = "ok"
    /\ xhrs' = xhrs \ {x}
    /\ isFormDirty' = FALSE
    /\ accepted' = TRUE
    /\ WindowClose(FALSE)
    /\ UNCHANGED <<beaconLost, banner, draft, closable, nextId, server, savedSnap, hides,
                   commits, discardClicked>>

\* xhr.onreadystatechange at DONE: 200 clears the flag and closes the
\* window; any other status, a transport error included, shows the banner.
CommitDone(x) ==
    /\ Open
    /\ x.kind = "commit"
    /\ x.status # "pending"
    /\ xhrs' = xhrs \ {x}
    /\ IF x.status = "ok"
       THEN /\ isFormDirty' = FALSE
            /\ accepted' = TRUE
            /\ WindowClose(FALSE)
            /\ UNCHANGED banner
       ELSE /\ banner' = TRUE
            /\ UNCHANGED <<isFormDirty, accepted, page, beacons, discards,
                           visibility, leaveConfirmed>>
    /\ UNCHANGED <<beaconLost, draft, closable, nextId, server, savedSnap, hides, commits,
                   discardClicked>>

\* Mutant: onDiscard calling close() right after send instead of in onload.
ClickDiscardCloseAtOnce ==
    /\ UserCanClick
    /\ nextId <= MaxRequests
    /\ xhrs' = xhrs \cup {[id |-> nextId, kind |-> "discard", snap |-> draft,
                           status |-> "pending"]}
    /\ nextId' = nextId + 1
    /\ discardClicked' = TRUE
    /\ \/ /\ ~closable \/ isFormDirty
          /\ discards' = discards + 1
          /\ UNCHANGED <<page, beacons, visibility, leaveConfirmed>>
       \/ /\ closable
          /\ ~isFormDirty
          /\ page' = "scriptClosed"
          /\ beacons' = beacons + 1
          /\ discards' = discards + 2
          /\ visibility' = "hidden"
          /\ UNCHANGED leaveConfirmed
    /\ UNCHANGED <<beaconLost, isFormDirty, draft, closable, server, savedSnap, banner,
                   hides, commits, accepted>>

\* onDiscard: POST /discard.
ClickDiscard ==
    /\ UserCanClick
    /\ nextId <= MaxRequests
    /\ xhrs' = xhrs \cup {[id |-> nextId, kind |-> "discard", snap |-> draft,
                           status |-> "pending"]}
    /\ nextId' = nextId + 1
    /\ discards' = discards + 1
    /\ discardClicked' = TRUE
    /\ UNCHANGED <<beaconLost, isFormDirty, draft, visibility, page, closable, beacons,
                   server, savedSnap, banner, hides, commits, accepted,
                   leaveConfirmed>>

\* xhr.onload of the discard request: fires for any HTTP status, not for a
\* transport error (there is no onerror handler).
DiscardLoad(x) ==
    /\ Open
    /\ x.kind = "discard"
    /\ x.status \in {"ok", "fail"}
    /\ xhrs' = xhrs \ {x}
    /\ WindowClose(isFormDirty)
    /\ UNCHANGED <<beaconLost, isFormDirty, draft, closable, nextId, server, savedSnap,
                   banner, hides, commits, accepted, discardClicked>>

DiscardError(x) ==
    /\ Open
    /\ x.kind = "discard"
    /\ x.status = "neterr"
    /\ xhrs' = xhrs \ {x}
    /\ UNCHANGED <<beaconLost, isFormDirty, draft, visibility, page, closable, nextId,
                   beacons, server, savedSnap, banner, hides, commits,
                   discards, accepted, discardClicked, leaveConfirmed>>

\* The visibilitychange listener: any transition to hidden (a tab switch,
\* a minimised window) sends the beacon.
Hide ==
    /\ Open
    /\ visibility = "visible"
    /\ hides < MaxHides
    /\ visibility' = "hidden"
    /\ hides' = hides + 1
    /\ beacons' = beacons + 1
    /\ discards' = discards + 1
    /\ UNCHANGED <<beaconLost, isFormDirty, draft, page, closable, xhrs, nextId, server,
                   savedSnap, banner, commits, accepted, discardClicked,
                   leaveConfirmed>>

\* Mutant: the listener without its visibilityState === 'hidden' test, so
\* becoming visible also sends the beacon.
ShowSendsBeacon ==
    /\ Open
    /\ visibility = "hidden"
    /\ visibility' = "visible"
    /\ beacons' = beacons + 1
    /\ discards' = discards + 1
    /\ UNCHANGED <<beaconLost, isFormDirty, draft, page, closable, xhrs, nextId, server,
                   savedSnap, banner, hides, commits, accepted, discardClicked,
                   leaveConfirmed>>

Show ==
    /\ Open
    /\ visibility = "hidden"
    /\ visibility' = "visible"
    /\ UNCHANGED <<beaconLost, isFormDirty, draft, page, closable, xhrs, nextId, beacons,
                   server, savedSnap, banner, hides, commits, discards,
                   accepted, discardClicked, leaveConfirmed>>

\* The user closes the tab or navigates away; the beforeunload listener
\* makes the browser ask when isFormDirty is set, and the user may stay.
UserLeave ==
    /\ Open
    /\ \/ /\ ~isFormDirty
          /\ UNCHANGED leaveConfirmed
       \/ /\ isFormDirty
          /\ leaveConfirmed' = TRUE
    /\ Unload("userClosed")
    /\ UNCHANGED <<beaconLost, isFormDirty, draft, closable, xhrs, nextId, server,
                   savedSnap, banner, hides, commits, accepted,
                   discardClicked>>

-----------------------------------------------------------------------------
(* The backing process and the network (modelled from the spec).          *)

Answer(x, st) == (xhrs \ {x}) \cup {[x EXCEPT !.status = st]}

ServerCommit(x) ==
    /\ server = "running"
    /\ x.kind = "commit"
    /\ x.status = "pending"
    /\ \/ /\ xhrs' = Answer(x, "ok")
          /\ server' = "saved"
          /\ savedSnap' = x.snap
       \/ /\ xhrs' = Answer(x, "fail")
          /\ UNCHANGED <<server, savedSnap>>
    /\ UNCHANGED <<beaconLost, isFormDirty, draft, visibility, page, closable, nextId,
                   beacons, banner, hides, commits, discards, accepted,
                   discardClicked, leaveConfirmed>>

ServerDiscard(x) ==
    /\ server = "running"
    /\ x.kind = "discard"
    /\ x.status = "pending"
    /\ xhrs' = Answer(x, "ok")
    /\ server' = "discarded"
    /\ UNCHANGED <<beaconLost, isFormDirty, draft, visibility, page, closable, nextId,
                   beacons, savedSnap, banner, hides, commits, discards,
                   accepted, discardClicked, leaveConfirmed>>

\* Once the backing process has exited, the connection is refused.
ServerGone(x) ==
    /\ server # "running"
    /\ x.status = "pending"
    /\ xhrs' = Answer(x, "neterr")
    /\ UNCHANGED <<beaconLost, isFormDirty, draft, visibility, page, closable, nextId,
                   beacons, server, savedSnap, banner, hides, commits,
                   discards, accepted, discardClicked, leaveConfirmed>>

\* A beacon that arrives ends a running backing process; one may be lost.
BeaconArrives ==
    /\ beacons > 0
    /\ beacons' = beacons - 1
    /\ server' = IF server = "running" THEN "discarded" ELSE server
    /\ UNCHANGED <<beaconLost, isFormDirty, draft, visibility, page, closable, xhrs,
                   nextId, savedSnap, banner, hides, commits, discards,
                   accepted, discardClicked, leaveConfirmed>>

BeaconLost ==
    /\ beacons > 0
    /\ beacons' = beacons - 1
    /\ beaconLost' = TRUE
    /\ UNCHANGED <<isFormDirty, draft, visibility, page, closable, xhrs,
                   nextId, server, savedSnap, banner, hides, commits,
                   discards, accepted, discardClicked, leaveConfirmed>>

\* Responses for a page that is gone are never handled.
DropResponse(x) ==
    /\ ~Open
    /\ x.status # "pending"
    /\ xhrs' = xhrs \ {x}
    /\ UNCHANGED <<beaconLost, isFormDirty, draft, visibility, page, closable, nextId,
                   beacons, server, savedSnap, banner, hides, commits,
                   discards, accepted, discardClicked, leaveConfirmed>>

\* The session is over: the page is gone and nothing is in flight.
Terminated ==
    /\ ~Open
    /\ xhrs = {}
    /\ beacons = 0
    /\ UNCHANGED vars

-----------------------------------------------------------------------------

User ==
    \/ SubmitEdit \/ ClickDelete \/ ClickUpdate
    \/ ClickSave \/ ClickDiscard \/ Hide \/ Show \/ UserLeave

Page ==
    \E x \in xhrs : CommitDone(x) \/ DiscardLoad(x) \/ DiscardError(x)

Environment ==
    \/ \E x \in xhrs :
          ServerCommit(x) \/ ServerDiscard(x) \/ ServerGone(x) \/ DropResponse(x)
    \/ BeaconArrives \/ BeaconLost

Next == User \/ Page \/ Environment \/ Terminated

\* The browser runs every queued callback, and the backing process answers
\* every request it is sent; the user is never obliged to do anything.
Fairness ==
    /\ \A i \in 1..MaxRequests :
          /\ WF_vars(\E x \in xhrs : x.id = i /\ (CommitDone(x) \/ DiscardLoad(x)
                                                \/ DiscardError(x)))
          /\ WF_vars(\E x \in xhrs : x.id = i /\ (ServerCommit(x)
                                                \/ ServerDiscard(x)
                                                \/ ServerGone(x)))
    /\ WF_vars(BeaconArrives \/ BeaconLost)

Spec == Init /\ [][Next]_vars /\ Fairness

-----------------------------------------------------------------------------
(* Properties.                                                             *)

\* The page closes itself (window.close() in the commit and discard
\* callbacks) only after the backing process has been told the outcome:
\* the callbacks wait for the answer instead of closing on send.
ScriptCloseFollowsNotice ==
    page = "scriptClosed" => server # "running"

\* Every save the user sends is eventually settled: its answer is handled
\* by onreadystatechange (banner or close), or the page is gone.  Needs only
\* that the backing process answers and the browser runs the callback.
SaveSettles ==
    \A i \in 1..MaxRequests :
        (\E x \in xhrs : x.id = i /\ x.kind = "commit")
            ~> (~Open \/ ~\E x \in xhrs : x.id = i)

\* When the page goes away, by a script close() or by the user, the
\* backing process eventually stops, unless a beacon was lost: either it
\* has the commit or a discard, or the hidden transition of the unload
\* sent a beacon.  Nothing else ever stops it.
ServerStopsWhenPageGone ==
    ~Open ~> (server # "running" \/ beaconLost)

\* Spec 4.4 and 8: the involuntary-close notification, the beacon the
\* visibilitychange listener sends (l.206-207), ends the session; no
\* commit payload is sent after one.
NoCommitAfterCloseBeacon ==
    [][beacons > 0 => commits' = commits]_vars

\* The 200 handler clears isFormDirty only when the draft it saved is the
\* current one: edits made while the save was in flight stay guarded.
SaveClearsOnlyWhatItSaved ==
    [][isFormDirty /\ ~isFormDirty' => savedSnap' = draft]_vars

=============================================================================
