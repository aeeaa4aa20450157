----------------------------- MODULE EditSession -----------------------------
(***************************************************************************)
(* The page of internal/webui and the person in front of it, against the   *)
(* edit handler.  The page lists the lines with their versions, the editor *)
(* types a version it shows next to the new text and submits.  After an    *)
(* accepted edit the page loads the list by itself; after a 409 it says so *)
(* and leaves the list as it is, and the editor may click for a new one.   *)
(* Nothing on the page waits for anything: an editor submits while loads   *)
(* are on their way, loads are answered in any order, and the list that    *)
(* comes last is shown, however old it is.                                 *)
(*                                                                         *)
(* The n-th submission of editor e is the request <<e, n>>.                *)
(***************************************************************************)
EXTENDS EditSegment, Functions

CONSTANTS
  Editor,      \* who edits; also the actors
  Line,        \* the segment all of them want to change
  Wants,       \* Wants[e]: the change editor e asks for
  Goal,        \* Goal[e]: how many edits editor e wants accepted
  MaxTries,    \* MaxTries[e]: how often e submits before giving up
  MaxClicks    \* MaxClicks[e]: how often e clicks for the list

ASSUME SessionAssumption ==
  /\ Editor = Actor
  /\ Request = UNION {{e} \X (1..MaxTries[e]) : e \in Editor}
  /\ Line \in Segment
  /\ SeedSegments[Line] # None
  /\ Wants \in [Editor -> Edits]
  /\ Goal \in [Editor -> Nat \ {0}]
  /\ MaxTries \in [Editor -> Nat \ {0}]
  /\ MaxClicks \in [Editor -> Nat]

VARIABLES
  page,        \* page[e]: what the editor does next
  asked,       \* asked[e]: how many loads of its own the page waits for
  arriving,    \* arriving[e]: the lists that are on their way to the page
  shown,       \* shown[e]: the list on the page, None before the first
  clicks,      \* clicks[e]: how often e has clicked for the list
  try,         \* try[e]: how often e has submitted
  sent         \* sent[r]: the list on the page when r was submitted

pageVars == <<page, asked, arriving, shown, clicks, try, sent>>
sessionVars == <<vars, pageVars>>

PageState == {"look", "wait", "satisfied", "refused", "gave_up"}

\* Of a list what matters is the version of the line.  read says how many of
\* the editor's submissions were answered when the server read it; no action
\* looks at it, the properties do.
List == [version : Nat, read : Nat]

ASSUME ListAssumption == None \notin List

\* refresh() loads the list when the page is opened.
SessionInit ==
  /\ EditInit
  /\ page = [e \in Editor |-> "look"]
  /\ asked = [e \in Editor |-> 1]
  /\ arriving = [e \in Editor |-> <<>>]
  /\ shown = [e \in Editor |-> None]
  /\ clicks = [e \in Editor |-> 0]
  /\ try = [e \in Editor |-> 0]
  /\ sent = [r \in Request |-> None]
-----------------------------------------------------------------------------
\* How many of e's submissions are answered.
Answers(e) == IF page[e] = "wait" THEN try[e] - 1 ELSE try[e]

\* loadSegments, the server's side: one SELECT.
SendList(e) ==
  arriving' = [arriving EXCEPT ![e] =
                 Append(@, [version |-> GetSegment(Line).version,
                            read    |-> Answers(e)])]

\* The load a page asks for by itself.
Reload(e) ==
  /\ asked[e] > 0
  /\ asked' = [asked EXCEPT ![e] = @ - 1]
  /\ SendList(e)
  /\ UNCHANGED <<vars, page, shown, clicks, try, sent>>

\* The editor clicks for the list, also while a submission is on its way.  That
\* somebody has clicked changes nothing, so the click is at the SELECT.
Click(e) ==
  /\ page[e] \in {"look", "wait"}
  /\ clicks[e] < MaxClicks[e]
  /\ clicks' = [clicks EXCEPT ![e] = @ + 1]
  /\ SendList(e)
  /\ UNCHANGED <<vars, page, asked, shown, try, sent>>

Without(s, i) == SubSeq(s, 1, i - 1) \o SubSeq(s, i + 1, Len(s))

\* loadSegments, from the answer on: innerHTML is replaced by what has come.
Show(e) ==
  \E i \in DOMAIN arriving[e] :
    /\ shown' = [shown EXCEPT ![e] = arriving[e][i]]
    /\ arriving' = [arriving EXCEPT ![e] = Without(@, i)]
    /\ UNCHANGED <<vars, page, asked, clicks, try, sent>>

\* editSegment, up to the fetch, at any time there is a version to type.
Submit(e) ==
  /\ page[e] = "look"
  /\ shown[e] # None
  /\ try[e] < MaxTries[e]
  /\ page' = [page EXCEPT ![e] = "wait"]
  /\ try' = [try EXCEPT ![e] = @ + 1]
  /\ sent' = [sent EXCEPT ![<<e, try[e] + 1>>] = shown[e]]
  /\ UNCHANGED <<vars, asked, arriving, shown, clicks>>

GiveUp(e) ==
  /\ page[e] = "look"
  /\ try[e] = MaxTries[e]
  /\ page' = [page EXCEPT ![e] = "gave_up"]
  /\ UNCHANGED <<vars, asked, arriving, shown, clicks, try, sent>>

AcceptedOf(e) == Cardinality({n \in 1..try[e] : outcome[<<e, n>>] = "ok"})

AfterAnswer(e, answer) ==
  CASE answer = "ok" /\ AcceptedOf(e) = Goal[e] -> "satisfied"
    [] answer \in {"ok", "conflict"}          -> "look"
    [] OTHER                                  -> "refused"

AnswerWithoutReload(e) ==
  /\ page[e] = "wait"
  /\ pc[<<e, try[e]>>] = "done"
  /\ page' = [page EXCEPT ![e] = AfterAnswer(e, outcome[<<e, try[e]>>])]
  /\ UNCHANGED <<vars, asked, arriving, shown, clicks, try, sent>>

\* editSegment, from the answer on: an accepted edit is followed by a load.
Answer(e) ==
  LET answer == outcome[<<e, try[e]>>] IN
  /\ page[e] = "wait"
  /\ pc[<<e, try[e]>>] = "done"
  /\ page' = [page EXCEPT ![e] = AfterAnswer(e, answer)]
  /\ asked' = [asked EXCEPT ![e] = IF answer = "ok" THEN @ + 1 ELSE @]
  /\ UNCHANGED <<vars, arriving, shown, clicks, try, sent>>

\* The server handles what was submitted, as it was submitted.
Serve(r) ==
  LET e == r[1] IN
  /\ page[e] = "wait"
  /\ r[2] = try[e]
  /\ EditStep(r)
  /\ req'[r] = [seg |-> Line, base |-> sent[r].version, actor |-> e,
                edit |-> Wants[e]]
  /\ UNCHANGED pageVars

\* Everybody has stopped.
SessionQuiet ==
  /\ \A e \in Editor : page[e] \in {"satisfied", "refused", "gave_up"}
  /\ UNCHANGED sessionVars

SessionNext ==
  \/ \E e \in Editor : \/ Reload(e) \/ Click(e) \/ Show(e)
                       \/ Submit(e) \/ GiveUp(e) \/ Answer(e)
  \/ \E r \in Request : Serve(r)
  \/ SessionQuiet

\* What goes on without a click: the server reads lists and their answers come;
\* an editor who is shown a list does something with it and is served.  Per
\* editor one of each is enough, as the steps of each follow one another.
SessionFairness ==
  \A e \in Editor :
    /\ WF_sessionVars(Reload(e) \/ Show(e))
    /\ WF_sessionVars(\/ Submit(e) \/ GiveUp(e) \/ Answer(e)
                      \/ \E n \in 1..MaxTries[e] : Serve(<<e, n>>))

SessionSpec == SessionInit /\ [][SessionNext]_sessionVars /\ SessionFairness
-----------------------------------------------------------------------------
(***************************************************************************)
(* Properties.                                                             *)
(***************************************************************************)

\* The page's state is what the page can be in, and only submitted requests run.
SessionTypeOK ==
  /\ TypeOK
  /\ page \in [Editor -> PageState]
  /\ asked \in [Editor -> Nat]
  /\ arriving \in [Editor -> Seq(List)]
  /\ shown \in [Editor -> List \cup {None}]
  /\ clicks \in [Editor -> Nat]
  /\ try \in [Editor -> Nat]
  /\ sent \in [Request -> List \cup {None}]
  /\ \A r \in Request :
       /\ sent[r] # None <=> r[2] <= try[r[1]]
       /\ pc[r] # "new" => sent[r] # None

\* The list r was submitted from was read after all answers before it.
Informed(r) == sent[r].read = r[2] - 1

\* e has submitted from a list that was older than an answer e had got.
Hasty(e) == \E n \in 1..try[e] : ~Informed(<<e, n>>)

\* An editor that submits from lists read after the answer before is not
\* overtaken for ever, and comes to see what was accepted: as many submissions
\* as there are edits to be made by anybody are enough for each, since a refusal
\* takes somebody else's edit accepted since the list was read; and a list read
\* after the last answer is shown without a click (webui.go:108), if not for
\* good.  It needs that a refusal, which writes to the row too, refuses nobody
\* else, also in the row it writes back, and that the page loads the list.
Patient == {e \in Editor : MaxTries[e] >= FoldFunction(+, 0, Goal)}

EveryEditLands ==
  \A e \in Patient :
    <>(Hasty(e) \/ (page[e] = "satisfied" /\ shown[e].read = try[e]))

Overtakes(v, c) == v.seg = c.seg /\ v.after.version = c.base

\* A 409 is never spurious (service.go:220-223): when an edit is refused, the
\* version stored instead of the one the page had shown was written by an
\* accepted edit, and by somebody else's if the list was read after all answers
\* the editor had got.  It may be a lower version, since an edit that was read
\* before writes its own successor back.
RefusedOnlyWhenOvertaken ==
  \A c \in conflicts : \E v \in Accepted :
    Overtakes(v, c) /\ (Informed(c.id) => v.actor # c.actorB)
=============================================================================
