---------------------------- MODULE MarkdownCopy ----------------------------
(***************************************************************************)
(* The button that copies a page of the documentation as Markdown. What is *)
(* fetched is kept for as long as the tab is open, as a promise: from the  *)
(* moment of the request on, whatever comes of it. Where the browser has   *)
(* no clipboard to offer, an effect has put a stand-in there.              *)
(***************************************************************************)
EXTENDS Integers

VARIABLES
  clipboard,   \* the browser's own, or the stand-in
  cache,       \* the promise kept for the page, and what became of it
  button,      \* the button that is mounted
  copies       \* the copies under way, by what they wait for and for which button

Clipboards == {"native", "polyfill"}

\* A server's answer is a text, also when it is a page that says what went wrong.
Texts == {"markdown", "error page"}
Promises == {"none", "pending", "failed"} \cup Texts

\* A copy of a text that has to be fetched, or of one in the cache.
Copies == [kind : {"write", "writeText"}, mine : BOOLEAN]

\* fetched is a history variable: how often the page was fetched.
Caches == [promise : Promises, fetched : Nat]
Buttons == [isLoading : BOOLEAN, checked : BOOLEAN]

MountedButton == [isLoading |-> FALSE, checked |-> FALSE]

\* A mutant: the promise is kept when it has been fulfilled.
RequestedUncached == [promise |-> "none", fetched |-> cache.fetched + 1]

Requested == [promise |-> "pending", fetched |-> cache.fetched + 1]

\* A button that is loading is disabled. The stand-in has no write: what calls
\* it fails there and then, and leaves a request behind.
Copy ==
  /\ ~button.isLoading
  /\ IF cache.promise # "none"
     THEN /\ copies' = copies \cup {[kind |-> "writeText", mine |-> TRUE]}
          /\ UNCHANGED <<cache, button>>
     ELSE /\ cache' = Requested
          /\ IF clipboard = "polyfill"
             THEN UNCHANGED <<button, copies>>
             ELSE /\ button' = [button EXCEPT !.isLoading = TRUE]
                  /\ copies' = copies \cup {[kind |-> "write", mine |-> TRUE]}
  /\ UNCHANGED clipboard

FetchSettles ==
  /\ cache.promise = "pending"
  /\ \E outcome \in Texts \cup {"failed"} : cache' = [cache EXCEPT !.promise = outcome]
  /\ UNCHANGED <<clipboard, button, copies>>

\* A mutant: a copy that fails leaves the button loading.
Ended(copy, ok) ==
  IF ~copy.mine \/ ~ok THEN button
  ELSE [isLoading |-> button.isLoading /\ copy.kind # "write", checked |-> TRUE]

\* Only a button that is still there hears of it.
Finally(copy, ok) ==
  IF ~copy.mine THEN button
  ELSE [isLoading |-> button.isLoading /\ copy.kind # "write", checked |-> button.checked \/ ok]

\* A mutant: whatever came of the request.
CanSucceedSettled == cache.promise # "pending"

CanSucceed == cache.promise \in Texts

\* The browser may refuse to write, also before the text is there; it waits no
\* longer than for the text.
WriteEnds(copy, ok) ==
  /\ copy \in copies /\ copy.kind = "write"
  /\ ok => CanSucceed
  /\ button' = Finally(copy, ok)
  /\ copies' = copies \ {copy}
  /\ UNCHANGED <<clipboard, cache>>

\* The stand-in never refuses: whether the text was copied it does not look at.
WriteTextEnds(copy, ok) ==
  /\ copy \in copies /\ copy.kind = "writeText"
  /\ cache.promise # "pending"
  /\ ok => CanSucceed
  /\ clipboard = "polyfill" /\ CanSucceed => ok
  /\ button' = Finally(copy, ok)
  /\ copies' = copies \ {copy}
  /\ UNCHANGED <<clipboard, cache>>

CheckmarkGoes ==
  /\ button.checked
  /\ button' = [button EXCEPT !.checked = FALSE]
  /\ UNCHANGED <<clipboard, cache, copies>>

\* Another page, or the same one again: a new button. The copies go on without one.
Remount ==
  /\ button' = MountedButton
  /\ copies' = {[c EXCEPT !.mine = FALSE] : c \in copies}
  /\ UNCHANGED <<clipboard, cache>>
=============================================================================
