---------------------------- MODULE GateProperties ----------------------------
(***************************************************************************)
(* What the gate promises the user and the server.                         *)
(***************************************************************************)
EXTENDS Gate

RouteRecord ==
  [mounted : BOOLEAN, focused : BOOLEAN, layout : BOOLEAN, load : None .. MaxHints,
   seen : 0 .. MaxHints, want : 0 .. MaxHints, clash : 0 .. MaxHints,
   fail : None .. MaxHints, failed : BOOLEAN,
   shown : Values, current : Values, baseline : Values, rev : Nat,
   consent : {"none", "refresh", "leave"}, concealed : BOOLEAN, held : Ops \cup {NoOp},
   askedRev : Nat \cup {None, Void}, askedHeld : Ops \cup {NoOp},
   behind : SUBSET Ops, given : Values, away : 0 .. MaxHints]
OpRecord ==
  [kind : {"none", "get", "post"} \cup Reloads \cup Moves, key : Routes,
   pc : {"free", "queued", "loading", "laying", "drafting", "accepted", "navigating"},
   live : BOOLEAN, turn : 0 .. MaxActions, draft : Nat \cup {None}, value : Values,
   version : 0 .. MaxHints, seen : 0 .. MaxHints, sync : BOOLEAN, commit : Values \cup {None}]
Gates ==
  [epoch : 1 .. MaxEpoch + 1, suspended : BOOLEAN, paused : BOOLEAN, active : Ops \cup {NoOp},
   hint : 0 .. MaxHints, changed : 0 .. MaxHints,
   stack : {<<>>, <<"list">>, <<"list", "form">>},
   rt : [Routes -> RouteRecord], op : [Ops -> OpRecord],
   edits : 0 .. MaxEdits, pauses : 0 .. MaxPauses, actions : 0 .. MaxActions,
   choices : 0 .. MaxChoices]

\* Every field holds a value of its type, and no change is newer than the last
\* hint of its epoch (gate.tsx:917).
TypeOK == g \in Gates /\ g.changed <= g.hint

\* One operation is at work and the others that are owned wait in the queue, each
\* once: a coroutine whose operation has been retired never swaps a tree, holds
\* a draft or keeps the slot, however late it wakes (gate.tsx:411, :502, :522).
OneAtATime ==
  /\ g.active # NoOp => g.active \in Live(g)
  /\ \A o \in Ops : g.op[o].pc \in {"laying", "drafting", "navigating"} => g.active = o
  /\ \A o \in Live(g) : g.active = o \/ g.op[o].pc = "queued"
  /\ \A o, q \in Live(g) : o # q /\ {g.op[o].pc, g.op[q].pc} = {"queued"}
                             => g.op[o].turn # g.op[q].turn
  /\ \A r \in Routes : g.rt[r].held # NoOp => g.rt[r].held = g.active

\* Whoever retires the active operation goes on with the next: the gate does not
\* rest while something is queued or a screen is to be reloaded (gate.tsx:527).
NeverIdle ==
  g.active = NoOp /\ ~g.paused /\ ~g.suspended =>
    Queued(g) = {} /\ \A r \in Routes : ~Wants(g, r)

\* No answer that was asked for before the last edit of a form replaces its
\* fields, unless the user has agreed: not after an edit that was taken back,
\* not across a pause, not after a dialog about an older draft (gate.tsx:417, :504).
DraftsKept ==
  [][\A o \in Ops :
       LET p == g.op[o] IN
       p.kind \in Drafted /\ p.pc # "laying" /\ g'.op[o].pc = "laying"
         => o \notin g.rt[p.key].behind]_g

\* The baseline drafts are compared with moves to nothing but what the server
\* gave for the whole form: an edit made between an answer and its layout
\* is not taken for saved (drafts.ts:30, gate.tsx:716).
BaselineProven ==
  [][\A r \in Routes :
       g.rt[r].mounted /\ g'.rt[r].mounted /\ g'.rt[r].baseline # g.rt[r].baseline
         => g'.rt[r].baseline = g.rt[r].given]_g

\* A clean list that a hint reached while another screen was in front is not
\* seen again before it has been reloaded, even if a form, a pause or a
\* failure kept the gate busy meanwhile (gate.tsx:525, :721, :748).
Hidden(r) ==
  LET d == g.rt[r] IN
  \/ d.consent # "none"
  \/ r = "list" /\ ~Dirty(d) /\ (d.concealed \/ (~d.focused /\ Needed(g, r) > 0))
StaleConcealed ==
  LET d == g.rt["list"] IN d.mounted /\ d.seen < d.away => Hidden("list") \/ Dirty(d)

\* A list in front that has fallen behind a hint is reloaded, the hint that
\* arrives during a reload included, unless an edit, a failure of that very
\* version, a pause or another screen stands against it (gate.tsx:542).
Behind == g.rt["list"].mounted /\ Needed(g, "list") > 0
ScreensFollow ==
  Behind ~> \/ ~Behind \/ g.paused \/ Top(g) # "list" \/ Dirty(g.rt["list"])
            \/ g.rt["list"].fail = Needed(g, "list")

\* Every operation comes to an end, unless a held answer waits for the user.
OperationsSettle ==
  \A o \in Ops : g.op[o].live ~> ~g.op[o].live \/ \E p \in Ops : g.op[p].pc = "drafting"
=============================================================================
