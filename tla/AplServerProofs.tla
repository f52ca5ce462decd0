-------------------------- MODULE AplServerProofs ---------------------------
(***************************************************************************)
(* Theorems about the options a server runs with, for any files, any       *)
(* number of publications, failing calls, starts and connections.          *)
(***************************************************************************)
EXTENDS AplServer, WellFoundedInduction, TLAPS

-----------------------------------------------------------------------------
(***************************************************************************)
(* The inductive invariant                                                 *)
(***************************************************************************)

\* The keys that a run publishes, and what it writes for one of them.
Sec(n) == DOMAIN Section(tool[n].file)
Wrote(n, k) == ValueOf(n, Section(tool[n].file)[k])

Stages == {"idle", "refused", "root", "makeroot", "exists", "create", "set", "done", "interrupted"}
Tool == [pc : Stages, file : Seq(Lines), pos : Nat, clean : BOOLEAN]

\* The type of every variable that the properties depend on.
Typed ==
    /\ root \in BOOLEAN
    /\ node \in [Keys -> Value \cup {Absent}]
    /\ tool \in [Runs -> Tool]
    /\ proc \in {"down", "loading", "running"}
    /\ options \in Seq(Value)
    /\ basis \in Runs \cup {0}

AtKey(n) == tool[n].pc \in {"exists", "create", "set"}

\* The run has left the key at position q of PublishOrder behind.
Past(n, q) == tool[n].pc = "done" \/ (AtKey(n) /\ q < tool[n].pos)

\* A run at a key is at one that its file has.
AtItsKeys == \A n \in Runs : AtKey(n) => tool[n].pos \in 1..4 /\ PublishOrder[tool[n].pos] \in Sec(n)

\* Runs begin one after the other.
InOrder == \A m, n \in Runs : m < n /\ tool[m].pc = "idle" => tool[n].pc = "idle"

\* While an undisturbed run goes on no other does, and none before it goes on
\* afterwards.
Alone == \A m, n \in Runs : tool[n].clean /\ Begun(n) /\ Busy(m) => n <= m /\ (Busy(n) => m = n)

\* An undisturbed run creates the nodes that are not there, below the root.
CreatesMissing ==
    \A n \in Runs : AtKey(n) /\ tool[n].clean =>
        root /\ (tool[n].pc = "create" => node[PublishOrder[tool[n].pos]] = Absent)

\* What is in a node is what the run wrote that its value names.
NodesWritten ==
    \A k \in Keys, n \in Runs : node[k][1] = n =>
        Begun(n) /\ k \in Sec(n) /\ node[k] = Wrote(n, k)

\* No older value is in a node that an undisturbed run has left behind.
NodesNotOlder ==
    \A n \in Runs, q \in 1..4 :
        tool[n].clean /\ Past(n, q) /\ PublishOrder[q] \in Sec(n) => node[PublishOrder[q]][1] >= n

\* The port is what a run writes last.
PortIsLast == node["port"] # Absent => tool[node["port"][1]].pc = "done"

ToolInv ==
    /\ Typed
    /\ AtItsKeys /\ InOrder /\ Alone /\ CreatesMissing
    /\ NodesWritten /\ NodesNotOlder /\ PortIsLast

\* How far the process has come with its options.
LoadState ==
    /\ Len(options) <= 4
    /\ proc = "down" => options = <<>>
    /\ proc = "running" => Len(options) = 4

\* Nothing older than the port has been read for a key of the port's run.
ReadNotOlder ==
    options # <<>> =>
        LET n == options[1][1]
        IN /\ tool[n].pc = "done"
           /\ tool[n].clean => \A i \in 1..Len(options) :
                                   LoadOrder[i] \in Sec(n) => options[i][1] >= n

\* A process that was started on a settled publication has read what that one
\* wrote, and nothing is published until it has read everything.
ReadsBasis ==
    basis # 0 =>
        /\ tool[basis].pc = "done" /\ tool[basis].clean
        /\ \A i \in 1..Len(options) :
               LoadOrder[i] \in Sec(basis) => options[i] = Wrote(basis, LoadOrder[i])
        /\ proc = "loading" => \A m \in Runs : ~Busy(m) /\ (m > basis => ~Begun(m))

OptionsInv == LoadState /\ ReadNotOlder /\ ReadsBasis

\* The handlers of a running process have used the database it has read of.
UsesOwnOption ==
    /\ proc = "loading" => used = {}
    /\ proc = "running" => used \subseteq {getDBServer}

AplInv == ToolInv /\ OptionsInv /\ UsesOwnOption /\ AnsweredFromOneDatabase

-----------------------------------------------------------------------------
(***************************************************************************)
(* The operators                                                           *)
(***************************************************************************)

\* The smallest of some line numbers or positions.
LEMMA FirstFacts ==
    ASSUME NEW S, S \subseteq Nat, S # {}
    PROVE  First(S) \in S /\ \A j \in S : First(S) <= j
<1>1. PICK x \in S : \A y \in S : ~ (<<y, x>> \in OpToRel(<, Nat))
  BY NatLessThanWellFounded, WFMin
<1>2. \A y \in S : ~ (y < x)
  BY <1>1 DEF OpToRel
<1>3. x \in S /\ \A y \in S : x <= y
  BY <1>2
<1>4. QED
  BY <1>3 DEF First

\* The orders in which options are written and read.
LEMMA OrderFacts ==
    /\ Keys = {"log-file", "log-level", "mongo-server", "port"}
    /\ Len(PublishOrder) = 4 /\ Len(LoadOrder) = 4
    /\ PublishOrder[1] = "log-file" /\ PublishOrder[2] = "log-level"
    /\ PublishOrder[3] = "mongo-server" /\ PublishOrder[4] = "port"
    /\ LoadOrder[1] = "port" /\ LoadOrder[2] = "log-file"
    /\ LoadOrder[3] = "log-level" /\ LoadOrder[4] = "mongo-server"
<1>1. /\ Len(PublishOrder) = 4 /\ DOMAIN PublishOrder = {1, 2, 3, 4}
      /\ PublishOrder[1] = "log-file" /\ PublishOrder[2] = "log-level"
      /\ PublishOrder[3] = "mongo-server" /\ PublishOrder[4] = "port"
  BY DEF PublishOrder
<1>2. /\ Len(LoadOrder) = 4
      /\ LoadOrder[1] = "port" /\ LoadOrder[2] = "log-file"
      /\ LoadOrder[3] = "log-level" /\ LoadOrder[4] = "mongo-server"
  BY DEF LoadOrder
<1>3. Keys = {PublishOrder[i] : i \in DOMAIN PublishOrder}
  BY DEF Keys, ToSet
<1>4. QED
  BY <1>1, <1>2, <1>3

\* Every key has a position in either order.
LEMMA KeyAt ==
    /\ \A q \in 1..4 : PublishOrder[q] \in Keys /\ LoadOrder[q] \in Keys
    /\ \A k \in Keys : (\E q \in 1..4 : PublishOrder[q] = k) /\ (\E i \in 1..4 : LoadOrder[i] = k)
    /\ \A p, q \in 1..4 : (PublishOrder[p] = PublishOrder[q] => p = q) /\ (LoadOrder[p] = LoadOrder[q] => p = q)
<1>1. 1 \in 1..4 /\ 2 \in 1..4 /\ 3 \in 1..4 /\ 4 \in 1..4 /\ \A q \in 1..4 : q \in {1, 2, 3, 4}
  OBVIOUS
<1>2. \A k \in Keys : k \in {"log-file", "log-level", "mongo-server", "port"}
  BY OrderFacts
<1>3. \A q \in 1..4 : PublishOrder[q] \in Keys /\ LoadOrder[q] \in Keys
  BY <1>1, OrderFacts
<1>4. \A k \in Keys : (\E q \in 1..4 : PublishOrder[q] = k) /\ (\E i \in 1..4 : LoadOrder[i] = k)
  BY <1>1, <1>2, OrderFacts
<1>5. \A p, q \in 1..4 : (PublishOrder[p] = PublishOrder[q] => p = q) /\ (LoadOrder[p] = LoadOrder[q] => p = q)
  BY <1>1, OrderFacts
<1>6. QED
  BY <1>3, <1>4, <1>5

\* What is read of a file is a file.
LEMMA ReadLinesFacts ==
    ASSUME NEW f \in Seq(Lines)
    PROVE  /\ ReadLines(f) \in Seq(Lines)
           /\ Short(f) => ReadLines(f) = f
<1> DEFINE long == {i \in DOMAIN f : f[i].kind = "overlong"}
<1>1. Short(f) => long = {}
  BY DEF Short
<1>2. CASE long = {}
  BY <1>2 DEF ReadLines
<1>3. CASE long # {}
  <2>1. long \subseteq 1..Len(f) /\ long \subseteq Nat
    OBVIOUS
  <2>2. ReadLines(f) = SubSeq(f, 1, First(long) - 1)
    BY <1>3 DEF ReadLines
  <2> HIDE DEF long
  <2>3. First(long) \in 1..Len(f)
    BY <1>3, <2>1, FirstFacts
  <2>4. PICK m : m = First(long) - 1
    OBVIOUS
  <2>5. m \in 0..Len(f)
    BY <2>3, <2>4
  <2>6. SubSeq(f, 1, m) \in Seq(Lines)
    BY <2>5
  <2>7. QED
    BY <1>1, <1>3, <2>2, <2>4, <2>6
<1>4. QED
  BY <1>2, <1>3

\* The section of a file.
LEMMA SectionFacts ==
    ASSUME NEW f \in Seq(Lines)
    PROVE  /\ DOMAIN Section(f) \subseteq Keys
           /\ \A k \in DOMAIN Section(f) : Section(f)[k] \in Nat
           /\ ReadLines(f) = <<>> => DOMAIN Section(f) = {}
           /\ Short(f) => \A k \in Keys : ItemsFor(f, k) # {} =>
                              k \in DOMAIN Section(f) /\ Section(f)[k] = Says(f, k)
<1> DEFINE g == ReadLines(f)
<1>1. g \in Seq(Lines) /\ (Short(f) => g = f)
  BY ReadLinesFacts
<1> HIDE DEF g
<1>2. Section(f) = [k \in {k \in Keys : ItemsFor(g, k) # {}} |-> First(ItemsFor(g, k))]
  BY DEF Section, g
<1>3. /\ DOMAIN Section(f) = {k \in Keys : ItemsFor(g, k) # {}}
      /\ \A k \in DOMAIN Section(f) : Section(f)[k] = First(ItemsFor(g, k))
  BY <1>2
<1>4. \A k \in Keys : ItemsFor(g, k) \subseteq Nat
  BY <1>1 DEF ItemsFor
<1>5. \A k \in DOMAIN Section(f) : Section(f)[k] \in Nat
  BY <1>3, <1>4, FirstFacts
<1>6. g = <<>> => DOMAIN Section(f) = {}
  BY <1>3 DEF ItemsFor
<1>7. Short(f) => \A k \in Keys : ItemsFor(f, k) # {} =>
                      k \in DOMAIN Section(f) /\ Section(f)[k] = Says(f, k)
  BY <1>1, <1>3 DEF Says
<1>8. QED
  BY <1>3, <1>5, <1>6, <1>7 DEF g

\* The next key of a file from a position on.
LEMMA NextPosFacts ==
    ASSUME NEW f, NEW p \in 1..5
    PROVE  /\ NextPos(f, p) \in 0..4
           /\ NextPos(f, p) # 0 => /\ NextPos(f, p) >= p
                                   /\ PublishOrder[NextPos(f, p)] \in DOMAIN Section(f)
                                   /\ \A q \in 1..4 : p <= q /\ q < NextPos(f, p) => PublishOrder[q] \notin DOMAIN Section(f)
           /\ NextPos(f, p) = 0 => \A q \in 1..4 : p <= q => PublishOrder[q] \notin DOMAIN Section(f)
<1> DEFINE later == {q \in p..4 : PublishOrder[q] \in DOMAIN Section(f)}
<1>1. NextPos(f, p) = IF later = {} THEN 0 ELSE First(later)
  BY OrderFacts DEF NextPos
<1>2. CASE later = {}
  <2>1. \A q \in 1..4 : p <= q => q \in p..4
    OBVIOUS
  <2>2. QED
    BY <1>1, <1>2, <2>1
<1>3. CASE later # {}
  <2>1. later \subseteq Nat
    OBVIOUS
  <2>2. First(later) \in later /\ \A j \in later : First(later) <= j
    BY <1>3, <2>1, FirstFacts
  <2>3. \A q \in 1..4 : p <= q /\ PublishOrder[q] \in DOMAIN Section(f) => q \in later
    OBVIOUS
  <2>4. First(later) \in 1..4 /\ First(later) >= p /\ PublishOrder[First(later)] \in DOMAIN Section(f)
    BY <2>2
  <2>5. \A q \in 1..4 : p <= q /\ q < First(later) => PublishOrder[q] \notin DOMAIN Section(f)
    BY <2>2, <2>3, <2>4
  <2> HIDE DEF later
  <2>6. QED
    BY <1>1, <1>3, <2>4, <2>5
<1>4. QED
  BY <1>2, <1>3

-----------------------------------------------------------------------------
(***************************************************************************)
(* The steps of a run of rcar-config                                       *)
(***************************************************************************)

\* t is what tool becomes by a step of the run n.
Moved(n, t) ==
    /\ t \in [Runs -> Tool]
    /\ \A m \in Runs : m # n => t[m] = tool[m]
    /\ t[n].file = tool[n].file
    /\ t[n].clean => tool[n].clean
    /\ t[n].pc \notin {"idle", "refused"}

\* The run n writes its value for the key at position q.
Writes(n, q) == node' = [node EXCEPT ![PublishOrder[q]] = Wrote(n, PublishOrder[q])]

\* What the run itself has to see to.
KeepsOrder(n) ==
    /\ AtKey(n) => tool[n].pos \in 1..4 /\ PublishOrder[tool[n].pos] \in Sec(n)
    /\ AtKey(n) /\ tool[n].clean => root /\ (tool[n].pc = "create" => node[PublishOrder[tool[n].pos]] = Absent)
    /\ \A q \in 1..4 : tool[n].clean /\ Past(n, q) /\ PublishOrder[q] \in Sec(n) => node[PublishOrder[q]][1] >= n

\* A run that goes on is neither idle nor at its end.
LEMMA BusyFacts ==
    ASSUME NEW n \in Runs, Busy(n)
    PROVE  Begun(n) /\ tool[n].pc # "done" /\ tool[n].pc # "idle"
BY DEF Busy, Begun

\* What a run writes is a value, and not Absent.
LEMMA WroteFacts ==
    ASSUME Typed, NEW n \in Runs, NEW k \in Sec(n)
    PROVE  k \in Keys /\ Wrote(n, k) \in Value /\ Wrote(n, k)[1] = n /\ Wrote(n, k) # Absent
<1>1. tool[n].file \in Seq(Lines)
  BY DEF Typed, Tool
<1>2. k \in Keys /\ Section(tool[n].file)[k] \in Nat
  BY <1>1, SectionFacts DEF Sec
<1>3. n # 0
  BY ConfigurationAssumption DEF Runs
<1>4. QED
  BY <1>2, <1>3 DEF Wrote, ValueOf, Value, Absent

\* The rest of the invariant follows for every step of a run.
LEMMA MovePreserves ==
    ASSUME ToolInv, NEW n \in Runs, Busy(n), Moved(n, tool'),
           root' \in BOOLEAN, root => root',
           UNCHANGED <<proc, options, basis>>,
           \/ node' = node
           \/ \E q \in 1..4 : /\ PublishOrder[q] \in Sec(n) /\ Writes(n, q)
                              /\ PublishOrder[q] = "port" => tool'[n].pc = "done",
           KeepsOrder(n)'
    PROVE  ToolInv'
<1>1. tool' \in [Runs -> Tool] /\ tool \in [Runs -> Tool]
  BY DEF Moved, ToolInv, Typed
<1>2. \A m \in Runs : /\ m # n => tool'[m] = tool[m]
                      /\ tool'[m].file = tool[m].file
                      /\ tool'[m].clean => tool[m].clean
                      /\ tool'[m].pc = "idle" <=> tool[m].pc = "idle"
                      /\ Begun(m)' <=> Begun(m)
                      /\ Busy(m)' => Busy(m)
                      /\ tool[m].pc = "done" => tool'[m].pc = "done" /\ m # n
  BY BusyFacts DEF Moved, Begun, Busy
<1>3. \A m \in Runs : Sec(m)' = Sec(m) /\ \A k : Wrote(m, k)' = Wrote(m, k)
  BY <1>2 DEF Sec, Wrote
<1>4. node \in [Keys -> Value \cup {Absent}]
  BY DEF ToolInv, Typed
<1>5. \/ node' = node
      \/ \E k \in Sec(n) : /\ k \in Keys /\ node' = [node EXCEPT ![k] = Wrote(n, k)]
                           /\ Wrote(n, k) \in Value /\ Wrote(n, k)[1] = n
                           /\ k = "port" => tool'[n].pc = "done"
  BY WroteFacts DEF Writes, ToolInv
<1>6. Typed'
  <2>1. node' \in [Keys -> Value \cup {Absent}]
    BY <1>4, <1>5
  <2>2. QED
    BY <1>1, <2>1 DEF ToolInv, Typed
<1>7. \A k \in Keys : \/ node'[k] = node[k]
                      \/ /\ k \in Sec(n) /\ node'[k] = Wrote(n, k) /\ node'[k][1] = n
                         /\ k = "port" => tool'[n].pc = "done"
  BY <1>4, <1>5
<1>8. \A k \in Keys : node[k] # Absent => node[k][1] \in Runs
  BY <1>4 DEF Value
<1>9. AtItsKeys'
  <2>1. SUFFICES ASSUME NEW m \in Runs, AtKey(m)'
                 PROVE  tool'[m].pos \in 1..4 /\ PublishOrder[tool'[m].pos] \in Sec(m)'
    BY DEF AtItsKeys
  <2>2. CASE m = n
    BY <2>1, <2>2 DEF KeepsOrder
  <2>3. CASE m # n
    BY <1>2, <1>3, <2>1, <2>3 DEF ToolInv, AtItsKeys, AtKey
  <2>4. QED
    BY <2>2, <2>3
<1>10. InOrder'
  BY <1>2 DEF ToolInv, InOrder
<1>11. Alone'
  BY <1>2 DEF ToolInv, Alone
<1>12. CreatesMissing'
  <2>1. SUFFICES ASSUME NEW m \in Runs, AtKey(m)', tool'[m].clean
                 PROVE  root' /\ (tool'[m].pc = "create" => node'[PublishOrder[tool'[m].pos]] = Absent)
    BY DEF CreatesMissing
  <2>2. CASE m = n
    BY <2>1, <2>2 DEF KeepsOrder
  <2>3. CASE m # n
    <3>1. tool[m].clean /\ Busy(m) /\ Begun(m)
      BY <1>2, <2>1, <2>3 DEF AtKey, Busy, Begun
    <3>2. QED
      BY <2>3, <3>1 DEF ToolInv, Alone
  <2>4. QED
    BY <2>2, <2>3
<1>13. NodesWritten'
  <2>1. SUFFICES ASSUME NEW k \in Keys, NEW m \in Runs, node'[k][1] = m
                 PROVE  Begun(m)' /\ k \in Sec(m)' /\ node'[k] = Wrote(m, k)'
    BY DEF NodesWritten
  <2>2. CASE node'[k] = node[k]
    <3>1. Begun(m) /\ k \in Sec(m) /\ node[k] = Wrote(m, k)
      BY <2>1, <2>2 DEF ToolInv, NodesWritten
    <3>2. QED
      BY <1>2, <1>3, <2>2, <3>1
  <2>3. CASE k \in Sec(n) /\ node'[k] = Wrote(n, k) /\ node'[k][1] = n
    BY <1>2, <1>3, <2>1, <2>3, BusyFacts
  <2>4. QED
    BY <1>7, <2>2, <2>3
<1>14. NodesNotOlder'
  <2>1. SUFFICES ASSUME NEW m \in Runs, NEW q \in 1..4, tool'[m].clean, Past(m, q)', PublishOrder[q] \in Sec(m)'
                 PROVE  node'[PublishOrder[q]][1] >= m
    BY DEF NodesNotOlder
  <2>2. CASE m = n
    BY <2>1, <2>2 DEF KeepsOrder
  <2>3. CASE m # n
    <3>1. tool[m].clean /\ Past(m, q) /\ PublishOrder[q] \in Sec(m)
      BY <1>2, <1>3, <2>1, <2>3 DEF Past, AtKey
    <3>2. node[PublishOrder[q]][1] >= m
      BY <3>1 DEF ToolInv, NodesNotOlder
    <3>3. Begun(m)
      BY <3>1 DEF Past, AtKey, Begun
    <3>4. n >= m
      BY <3>1, <3>3, ConfigurationAssumption DEF ToolInv, Alone, Runs
    <3>5. PublishOrder[q] \in Keys
      BY KeyAt
    <3>6. QED
      BY <1>7, <3>2, <3>4, <3>5
  <2>4. QED
    BY <2>2, <2>3
<1>15. PortIsLast'
  <2>1. "port" \in Keys
    BY OrderFacts
  <2>2. SUFFICES ASSUME node'["port"] # Absent
                 PROVE  tool'[node'["port"][1]].pc = "done"
    BY DEF PortIsLast
  <2>3. CASE node'["port"] = node["port"]
    BY <1>2, <1>8, <2>1, <2>2, <2>3 DEF ToolInv, PortIsLast
  <2>4. QED
    BY <1>7, <2>1, <2>3
<1>16. QED
  BY <1>6, <1>9, <1>10, <1>11, <1>12, <1>13, <1>14, <1>15 DEF ToolInv

\* What becomes of the run n: another call, or another key; or the end.
LEMMA GotoFacts ==
    ASSUME tool \in [Runs -> Tool], NEW n \in Runs, NEW pc \in Stages, NEW pos \in Nat,
           NEW t, t = Goto(n, pc, pos) \/ t = [Goto(n, pc, pos) EXCEPT ![n].clean = FALSE]
    PROVE  /\ t \in [Runs -> Tool]
           /\ \A m \in Runs : m # n => t[m] = tool[m]
           /\ t[n].pc = pc /\ t[n].pos = pos /\ t[n].file = tool[n].file
           /\ t[n].clean => tool[n].clean
<1>1. tool[n] \in Tool
  OBVIOUS
<1>2. PICK e : e = [tool[n] EXCEPT !.pc = pc, !.pos = pos]
  OBVIOUS
<1>3. e \in Tool /\ e.pc = pc /\ e.pos = pos /\ e.file = tool[n].file /\ e.clean = tool[n].clean
  BY <1>1, <1>2 DEF Tool
<1>4. Goto(n, pc, pos) = [tool EXCEPT ![n] = e]
  BY <1>1, <1>2 DEF Goto, Tool
<1>5. PICK d : d = [e EXCEPT !.clean = FALSE]
  OBVIOUS
<1>6. d \in Tool /\ d.pc = pc /\ d.pos = pos /\ d.file = tool[n].file /\ d.clean = FALSE
  BY <1>3, <1>5 DEF Tool
<1>7. t = [tool EXCEPT ![n] = e] \/ t = [tool EXCEPT ![n] = d]
  BY <1>3, <1>4, <1>5
<1>8. QED
  BY <1>3, <1>6, <1>7

LEMMA ToKeyFacts ==
    ASSUME tool \in [Runs -> Tool], NEW n \in Runs, NEW p \in 1..5
    PROVE  /\ NextPos(tool[n].file, p) \in Nat
           /\ ToKey(tool, n, p) =
                  Goto(n, IF NextPos(tool[n].file, p) = 0 THEN "done" ELSE "exists", NextPos(tool[n].file, p))
<1>1. NextPos(tool[n].file, p) \in Nat
  BY NextPosFacts
<1>2. QED
  BY <1>1 DEF ToKey, Goto

\* A call of the run that does not lead to another key.
LEMMA GotoKeepsOrder ==
    ASSUME ToolInv, NEW n \in Runs, Busy(n), NEW pc, NEW pos,
           tool' = Goto(n, pc, pos) \/ tool' = [Goto(n, pc, pos) EXCEPT ![n].clean = FALSE],
           UNCHANGED <<root, node>>,
           \/ pc = "makeroot" /\ pos = 0
           \/ /\ AtKey(n) /\ pos = tool[n].pos /\ pc \in {"create", "set"}
              /\ pc = "create" /\ tool'[n].clean => node[PublishOrder[pos]] = Absent
    PROVE  Moved(n, tool') /\ KeepsOrder(n)'
<1>1. tool \in [Runs -> Tool] /\ tool[n] \in Tool
  BY DEF ToolInv, Typed
<1>2. pc \in Stages /\ pos \in Nat /\ pc \notin {"idle", "refused", "done"}
  BY <1>1 DEF Stages, Tool
<1>3. /\ tool' \in [Runs -> Tool]
      /\ \A m \in Runs : m # n => tool'[m] = tool[m]
      /\ tool'[n].pc = pc /\ tool'[n].pos = pos /\ tool'[n].file = tool[n].file
      /\ tool'[n].clean => tool[n].clean
  BY <1>1, <1>2, GotoFacts
<1>4. Moved(n, tool')
  BY <1>2, <1>3 DEF Moved
<1>5. Sec(n)' = Sec(n)
  BY <1>3 DEF Sec
<1>6. CASE pc = "makeroot"
  BY <1>3, <1>4, <1>6 DEF KeepsOrder, AtKey, Past
<1>7. CASE AtKey(n) /\ pos = tool[n].pos /\ pc \in {"create", "set"}
  <2>1. pos \in 1..4 /\ PublishOrder[pos] \in Sec(n)
    BY <1>7 DEF ToolInv, AtItsKeys
  <2>2. tool'[n].clean => root' /\ (tool'[n].pc = "create" => node'[PublishOrder[tool'[n].pos]] = Absent)
    BY <1>3, <1>7 DEF ToolInv, CreatesMissing
  <2>3. \A q \in 1..4 : Past(n, q)' => Past(n, q)
    BY <1>3, <1>7 DEF Past, AtKey
  <2>4. \A q \in 1..4 : tool'[n].clean /\ Past(n, q)' /\ PublishOrder[q] \in Sec(n)' => node'[PublishOrder[q]][1] >= n
    BY <1>3, <1>5, <2>3 DEF ToolInv, NodesNotOlder
  <2>5. QED
    BY <1>3, <1>4, <1>5, <2>1, <2>2, <2>4 DEF KeepsOrder
<1>8. QED
  BY <1>6, <1>7

\* A call after which the run goes to its next key from position p on.
LEMMA ToKeyKeepsOrder ==
    ASSUME ToolInv, NEW n \in Runs, Busy(n), NEW p \in 1..5,
           tool' = ToKey(tool, n, p) \/ tool' = [ToKey(tool, n, p) EXCEPT ![n].clean = FALSE],
           tool'[n].clean =>
               /\ root'
               /\ \A q \in 1..4 : q < p /\ PublishOrder[q] \in Sec(n) => node'[PublishOrder[q]][1] >= n
    PROVE  Moved(n, tool') /\ KeepsOrder(n)' /\ (p = 5 => tool'[n].pc = "done")
<1>1. tool \in [Runs -> Tool] /\ tool[n] \in Tool
  BY DEF ToolInv, Typed
<1>2. PICK pos : pos = NextPos(tool[n].file, p)
  OBVIOUS
<1>3. PICK pc : pc = IF pos = 0 THEN "done" ELSE "exists"
  OBVIOUS
<1>4. /\ pos \in 0..4
      /\ pos # 0 => /\ pos >= p /\ PublishOrder[pos] \in Sec(n)
                    /\ \A q \in 1..4 : p <= q /\ q < pos => PublishOrder[q] \notin Sec(n)
      /\ pos = 0 => \A q \in 1..4 : p <= q => PublishOrder[q] \notin Sec(n)
  BY <1>2, NextPosFacts DEF Sec
<1>5. ToKey(tool, n, p) = Goto(n, pc, pos)
  BY <1>1, <1>2, <1>3, ToKeyFacts
<1>6. pc \in Stages /\ pos \in Nat
  BY <1>3, <1>4 DEF Stages
<1>7. /\ tool' \in [Runs -> Tool]
      /\ \A m \in Runs : m # n => tool'[m] = tool[m]
      /\ tool'[n].pc = pc /\ tool'[n].pos = pos /\ tool'[n].file = tool[n].file
      /\ tool'[n].clean => tool[n].clean
  BY <1>1, <1>5, <1>6, GotoFacts
<1>8. Moved(n, tool')
  BY <1>3, <1>7 DEF Moved
<1>9. Sec(n)' = Sec(n)
  BY <1>7 DEF Sec
<1>10. AtKey(n)' => tool'[n].pos \in 1..4 /\ PublishOrder[tool'[n].pos] \in Sec(n)' /\ tool'[n].pc = "exists"
  BY <1>3, <1>4, <1>7, <1>9 DEF AtKey
<1>11. ASSUME NEW q \in 1..4, tool'[n].clean, Past(n, q)', PublishOrder[q] \in Sec(n)'
       PROVE  node'[PublishOrder[q]][1] >= n
  <2>1. q < p
    <3>1. SUFFICES ASSUME p <= q PROVE FALSE
      OBVIOUS
    <3>2. pos # 0 /\ pc = "exists"
      BY <1>3, <1>4, <1>9, <1>11, <3>1
    <3>3. q < pos
      BY <1>7, <1>11, <3>2 DEF Past
    <3>4. QED
      BY <1>4, <1>9, <1>11, <3>1, <3>2, <3>3
  <2>2. QED
    BY <1>9, <1>11, <2>1
<1>12. KeepsOrder(n)'
  BY <1>10, <1>11 DEF KeepsOrder
<1>13. p = 5 => tool'[n].pc = "done"
  BY <1>3, <1>4, <1>7
<1>14. QED
  BY <1>8, <1>12, <1>13

\* A call that failed leaves ZooKeeper alone and the run disturbed.
LEMMA LostFacts ==
    ASSUME NEW t \in [Runs -> Tool], NEW n \in Runs, Lost(t, n)
    PROVE  /\ tool' = [t EXCEPT ![n].clean = FALSE] /\ tool'[n].clean = FALSE
           /\ UNCHANGED <<root, node>>
<1>1. tool' = [t EXCEPT ![n].clean = FALSE] /\ UNCHANGED <<root, node>>
  BY DEF Lost, zoo
<1>2. tool'[n] = [t[n] EXCEPT !.clean = FALSE] /\ t[n] \in Tool
  BY <1>1
<1>3. QED
  BY <1>1, <1>2 DEF Tool

LEMMA NextTools ==
    ASSUME ToolInv, NEW n \in Runs
    PROVE  /\ \A p \in 1..5 : /\ ToKey(tool, n, p) \in [Runs -> Tool]
                              /\ ToKey(tool, n, p)[n].clean => tool[n].clean
           /\ \A pc \in Stages, pos \in Nat : Goto(n, pc, pos) \in [Runs -> Tool]
<1>1. tool \in [Runs -> Tool]
  BY DEF ToolInv, Typed
<1>2. \A pc \in Stages, pos \in Nat : /\ Goto(n, pc, pos) \in [Runs -> Tool]
                                      /\ Goto(n, pc, pos)[n].clean => tool[n].clean
  BY <1>1, GotoFacts
<1>3. ASSUME NEW p \in 1..5
      PROVE  ToKey(tool, n, p) \in [Runs -> Tool] /\ (ToKey(tool, n, p)[n].clean => tool[n].clean)
  <2>1. PICK pos : pos = NextPos(tool[n].file, p)
    OBVIOUS
  <2>2. PICK pc : pc = IF pos = 0 THEN "done" ELSE "exists"
    OBVIOUS
  <2>3. pc \in Stages
    BY <2>2 DEF Stages
  <2>4. pos \in Nat /\ ToKey(tool, n, p) = Goto(n, pc, pos)
    BY <1>1, <2>1, <2>2, ToKeyFacts
  <2>5. QED
    BY <1>2, <2>3, <2>4
<1>4. QED
  BY <1>2, <1>3

\* The steps of a run preserve what is known of the runs.
Steps(n) == TestRoot(n) \/ MakeRoot(n) \/ TestNode(n) \/ WriteNode(n) \/ Interrupt(n)

LEMMA TestRootInv ==
    ASSUME ToolInv, NEW n \in Runs, TestRoot(n)
    PROVE  ToolInv' /\ Moved(n, tool')
<1>1. /\ tool[n].pc = "root" /\ UNCHANGED <<proc, options, basis>>
      /\ \/ tool' = (IF root THEN ToKey(tool, n, 1) ELSE Goto(n, "makeroot", 0)) /\ UNCHANGED <<root, node>>
         \/ Lost(Goto(n, "makeroot", 0), n)
  BY DEF TestRoot, server, zoo
<1>2. Busy(n) /\ root \in BOOLEAN
  BY <1>1 DEF Busy, ToolInv, Typed
<1>3. /\ UNCHANGED <<root, node>>
      /\ \/ root /\ tool' = ToKey(tool, n, 1)
         \/ tool' = Goto(n, "makeroot", 0)
         \/ tool' = [Goto(n, "makeroot", 0) EXCEPT ![n].clean = FALSE]
  <2>1. "makeroot" \in Stages
    BY DEF Stages
  <2>2. Goto(n, "makeroot", 0) \in [Runs -> Tool]
    BY <2>1, NextTools
  <2>3. QED
    BY <1>1, <2>2, LostFacts
<1>4. Moved(n, tool') /\ KeepsOrder(n)'
  <2>1. CASE root /\ tool' = ToKey(tool, n, 1)
    BY <1>2, <1>3, <2>1, ToKeyKeepsOrder
  <2>2. CASE tool' = Goto(n, "makeroot", 0) \/ tool' = [Goto(n, "makeroot", 0) EXCEPT ![n].clean = FALSE]
    BY <1>2, <1>3, <2>2, GotoKeepsOrder
  <2>3. QED
    BY <1>3, <2>1, <2>2
<1>5. QED
  BY <1>1, <1>2, <1>3, <1>4, MovePreserves

LEMMA MakeRootInv ==
    ASSUME ToolInv, NEW n \in Runs, MakeRoot(n)
    PROVE  ToolInv' /\ Moved(n, tool')
<1>1. /\ tool[n].pc = "makeroot" /\ UNCHANGED <<proc, options, basis>>
      /\ \/ root' = TRUE /\ tool' = ToKey(tool, n, 1) /\ UNCHANGED node
         \/ Lost(ToKey(tool, n, 1), n)
  BY DEF MakeRoot, server
<1>2. Busy(n) /\ root \in BOOLEAN
  BY <1>1 DEF Busy, ToolInv, Typed
<1>3. /\ UNCHANGED node
      /\ \/ root' = TRUE /\ tool' = ToKey(tool, n, 1)
         \/ root' = root /\ tool' = [ToKey(tool, n, 1) EXCEPT ![n].clean = FALSE] /\ tool'[n].clean = FALSE
  <2>1. ToKey(tool, n, 1) \in [Runs -> Tool]
    BY NextTools
  <2>2. QED
    BY <1>1, <2>1, LostFacts
<1>4. Moved(n, tool') /\ KeepsOrder(n)'
  BY <1>2, <1>3, ToKeyKeepsOrder
<1>5. QED
  BY <1>1, <1>2, <1>3, <1>4, MovePreserves

LEMMA TestNodeInv ==
    ASSUME ToolInv, NEW n \in Runs, TestNode(n)
    PROVE  ToolInv' /\ Moved(n, tool')
<1>1. PICK pos : pos = tool[n].pos
  OBVIOUS
<1>2. /\ tool[n].pc = "exists" /\ UNCHANGED <<proc, options, basis>>
      /\ \/ /\ tool' = IF node[PublishOrder[pos]] = Absent THEN Goto(n, "create", pos) ELSE Goto(n, "set", pos)
            /\ UNCHANGED <<root, node>>
         \/ Lost(Goto(n, "create", pos), n)
  BY <1>1 DEF TestNode, server, zoo
<1>3. Busy(n) /\ AtKey(n) /\ root \in BOOLEAN /\ pos \in Nat
  BY <1>1, <1>2 DEF Busy, AtKey, ToolInv, Typed, Tool
<1>4. /\ UNCHANGED <<root, node>>
      /\ \/ node[PublishOrder[pos]] = Absent /\ tool' = Goto(n, "create", pos)
         \/ tool' = Goto(n, "set", pos)
         \/ tool' = [Goto(n, "create", pos) EXCEPT ![n].clean = FALSE] /\ tool'[n].clean = FALSE
  <2>1. "create" \in Stages
    BY DEF Stages
  <2>2. Goto(n, "create", pos) \in [Runs -> Tool]
    BY <1>3, <2>1, NextTools
  <2>3. QED
    BY <1>2, <2>2, LostFacts
<1>5. Moved(n, tool') /\ KeepsOrder(n)'
  <2>1. CASE node[PublishOrder[pos]] = Absent /\ tool' = Goto(n, "create", pos)
    BY <1>1, <1>3, <1>4, <2>1, GotoKeepsOrder
  <2>2. CASE tool' = Goto(n, "set", pos)
    BY <1>1, <1>3, <1>4, <2>2, GotoKeepsOrder
  <2>3. CASE tool' = [Goto(n, "create", pos) EXCEPT ![n].clean = FALSE] /\ tool'[n].clean = FALSE
    BY <1>1, <1>3, <1>4, <2>3, GotoKeepsOrder
  <2>4. QED
    BY <1>4, <2>1, <2>2, <2>3
<1>6. QED
  BY <1>2, <1>3, <1>4, <1>5, MovePreserves

LEMMA WriteNodeInv ==
    ASSUME ToolInv, NEW n \in Runs, WriteNode(n)
    PROVE  ToolInv' /\ Moved(n, tool')
<1>1. PICK pos, k : pos = tool[n].pos /\ k = PublishOrder[pos]
  OBVIOUS
<1>2. /\ tool[n].pc \in {"create", "set"} /\ UNCHANGED <<proc, options, basis>>
      /\ \/ /\ node' = IF tool[n].pc = "create" /\ (node[k] # Absent \/ ~root) THEN node ELSE Store(n, k)
            /\ tool' = ToKey(tool, n, pos + 1) /\ UNCHANGED root
         \/ Lost(ToKey(tool, n, pos + 1), n)
  BY <1>1 DEF WriteNode, server
<1>3. Busy(n) /\ AtKey(n) /\ root \in BOOLEAN
  BY <1>2 DEF Busy, AtKey, ToolInv, Typed
<1>4. pos \in 1..4 /\ pos + 1 \in 1..5 /\ k \in Sec(n)
  BY <1>1, <1>3 DEF ToolInv, AtItsKeys
<1>5. Store(n, k) = [node EXCEPT ![k] = Wrote(n, k)] /\ k \in Keys /\ Wrote(n, k)[1] = n
  BY <1>4, WroteFacts DEF Store, Wrote, ToolInv
<1>6. UNCHANGED root /\ (\/ tool' = ToKey(tool, n, pos + 1)
                         \/ tool' = [ToKey(tool, n, pos + 1) EXCEPT ![n].clean = FALSE] /\ tool'[n].clean = FALSE)
                     /\ (node' = node \/ node' = [node EXCEPT ![k] = Wrote(n, k)])
                     /\ (tool'[n].clean => tool[n].clean /\ node' = [node EXCEPT ![k] = Wrote(n, k)])
  <2>1. ToKey(tool, n, pos + 1) \in [Runs -> Tool] /\ (ToKey(tool, n, pos + 1)[n].clean => tool[n].clean)
    BY <1>4, NextTools
  <2>2. tool[n].clean => root /\ (tool[n].pc = "create" => node[k] = Absent)
    BY <1>1, <1>3 DEF ToolInv, CreatesMissing
  <2>3. CASE Lost(ToKey(tool, n, pos + 1), n)
    BY <2>1, <2>3, LostFacts
  <2>4. CASE tool' = ToKey(tool, n, pos + 1)
    BY <1>2, <1>5, <2>1, <2>2, <2>4, LostFacts
  <2>5. QED
    BY <1>2, <2>3, <2>4
<1>7. ASSUME tool'[n].clean
      PROVE  root' /\ \A q \in 1..4 : q < pos + 1 /\ PublishOrder[q] \in Sec(n) => node'[PublishOrder[q]][1] >= n
  <2>1. root' /\ tool[n].clean
    BY <1>3, <1>6, <1>7 DEF ToolInv, CreatesMissing
  <2>2. node' = [node EXCEPT ![k] = Wrote(n, k)]
    BY <1>6, <1>7
  <2>3. SUFFICES ASSUME NEW q \in 1..4, q < pos + 1, PublishOrder[q] \in Sec(n)
                 PROVE  node'[PublishOrder[q]][1] >= n
    BY <2>1
  <2>4. node \in [Keys -> Value \cup {Absent}] /\ PublishOrder[q] \in Keys
    BY KeyAt DEF ToolInv, Typed
  <2>5. CASE q = pos
    <3>1. node'[k] = Wrote(n, k)
      BY <1>5, <2>2, <2>4
    <3>2. n >= n
      BY ConfigurationAssumption DEF Runs
    <3>3. QED
      BY <1>1, <1>5, <2>5, <3>1, <3>2
  <2>6. CASE q < pos
    <3>1. Past(n, q)
      BY <1>1, <1>3, <2>6 DEF Past
    <3>2. node[PublishOrder[q]][1] >= n
      BY <2>1, <2>3, <3>1 DEF ToolInv, NodesNotOlder
    <3>3. PublishOrder[q] # k
      BY <1>1, <1>4, <2>6, KeyAt
    <3>4. QED
      BY <2>2, <2>4, <3>2, <3>3
  <2>7. QED
    BY <1>4, <2>3, <2>5, <2>6
<1>8. Moved(n, tool') /\ KeepsOrder(n)' /\ (pos + 1 = 5 => tool'[n].pc = "done")
  BY <1>3, <1>4, <1>6, <1>7, ToKeyKeepsOrder
<1>9. k = "port" => pos = 4
  <2>1. 4 \in 1..4 /\ PublishOrder[4] = "port"
    BY OrderFacts
  <2>2. SUFFICES ASSUME k = "port" PROVE pos = 4
    OBVIOUS
  <2>3. pos \in 1..4 /\ PublishOrder[pos] = PublishOrder[4]
    BY <1>1, <1>4, <2>1, <2>2
  <2>4. QED
    BY <2>1, <2>3, KeyAt
<1>10. \/ node' = node
       \/ \E q \in 1..4 : /\ PublishOrder[q] \in Sec(n) /\ Writes(n, q)
                          /\ PublishOrder[q] = "port" => tool'[n].pc = "done"
  <2>1. CASE node' = [node EXCEPT ![k] = Wrote(n, k)]
    <3>1. /\ PublishOrder[pos] \in Sec(n) /\ Writes(n, pos)
          /\ PublishOrder[pos] = "port" => tool'[n].pc = "done"
      BY <1>1, <1>4, <1>8, <1>9, <2>1 DEF Writes
    <3>2. QED
      BY <1>4, <3>1
  <2>2. QED
    BY <1>6, <2>1
<1>11. QED
  BY <1>2, <1>3, <1>6, <1>8, <1>10, MovePreserves

LEMMA InterruptInv ==
    ASSUME ToolInv, NEW n \in Runs, Interrupt(n)
    PROVE  ToolInv' /\ Moved(n, tool')
<1>1. /\ Busy(n) /\ UNCHANGED <<root, node, proc, options, basis>>
      /\ tool' = [tool EXCEPT ![n].pc = "interrupted", ![n].clean = FALSE]
  BY DEF Interrupt, server, zoo
<1>2. tool \in [Runs -> Tool] /\ tool[n] \in Tool /\ root \in BOOLEAN
  BY DEF ToolInv, Typed
<1>3. PICK e : e = [tool[n] EXCEPT !.pc = "interrupted", !.clean = FALSE]
  OBVIOUS
<1>4. e \in Tool /\ e.pc = "interrupted" /\ e.file = tool[n].file /\ e.clean = FALSE
  BY <1>2, <1>3 DEF Tool, Stages
<1>5. tool' = [tool EXCEPT ![n] = e]
  BY <1>1, <1>2, <1>3 DEF Tool
<1>6. Moved(n, tool')
  BY <1>2, <1>4, <1>5 DEF Moved
<1>7. tool'[n].pc = "interrupted" /\ tool'[n].clean = FALSE
  BY <1>2, <1>4, <1>5
<1>8. KeepsOrder(n)'
  BY <1>7 DEF KeepsOrder, AtKey
<1>9. QED
  BY <1>1, <1>2, <1>6, <1>8, MovePreserves

\* The beginning of a run: nobody has written anything for it.
LEMMA PublishTools ==
    ASSUME ToolInv, NEW n \in Runs, NEW f \in Files, Publish(n, f)
    PROVE  /\ tool[n].pc = "idle" /\ (n > 1 => tool[n - 1].pc # "idle")
           /\ tool' \in [Runs -> Tool]
           /\ \A m \in Runs : m # n =>
                 /\ tool'[m].pc = tool[m].pc /\ tool'[m].file = tool[m].file /\ tool'[m].pos = tool[m].pos
                 /\ tool'[m].clean => tool[m].clean /\ ~Busy(m)
                 /\ ~Busy(m) => tool'[m] = tool[m]
           /\ tool'[n].file = f /\ tool'[n].pc \in {"refused", "done", "root"}
           /\ tool'[n].pc = "done" => ReadLines(f) = <<>>
           /\ tool'[n].clean => \A m \in Runs : ~Busy(m)
<1>1. tool \in [Runs -> Tool] /\ f \in Seq(Lines)
  BY ConfigurationAssumption DEF ToolInv, Typed
<1>2. PICK pc : pc = IF Refuses(f) THEN "refused" ELSE IF ReadLines(f) = <<>> THEN "done" ELSE "root"
  OBVIOUS
<1>3. PICK b : b = [pc |-> pc, file |-> f, pos |-> 0, clean |-> {o \in Runs : Busy(o)} = {}]
  OBVIOUS
<1>4. tool' = [o \in Runs |-> IF o = n THEN b
                              ELSE IF o \in {m \in Runs : Busy(m)} THEN [tool[o] EXCEPT !.clean = FALSE] ELSE tool[o]]
  BY <1>2, <1>3 DEF Publish
<1>5. pc \in {"refused", "done", "root"} /\ (pc = "done" => ReadLines(f) = <<>>) /\ pc \in Stages
  BY <1>2 DEF Stages
<1>6. b \in Tool /\ b.pc = pc /\ b.file = f /\ (b.clean => \A m \in Runs : ~Busy(m))
  <2>1. ({o \in Runs : Busy(o)} = {}) \in BOOLEAN
    OBVIOUS
  <2>2. QED
    BY <1>1, <1>3, <1>5, <2>1 DEF Tool
<1>7. ASSUME NEW m \in Runs, m # n
      PROVE  /\ tool'[m] \in Tool
             /\ tool'[m].pc = tool[m].pc /\ tool'[m].file = tool[m].file /\ tool'[m].pos = tool[m].pos
             /\ tool'[m].clean => tool[m].clean /\ ~Busy(m)
             /\ ~Busy(m) => tool'[m] = tool[m]
  <2>1. tool[m] \in Tool
    BY <1>1
  <2>2. CASE Busy(m)
    <3>1. tool'[m] = [tool[m] EXCEPT !.clean = FALSE]
      BY <1>4, <1>7, <2>2
    <3>2. QED
      BY <2>1, <2>2, <3>1 DEF Tool
  <2>3. CASE ~Busy(m)
    <3>1. tool'[m] = tool[m]
      BY <1>4, <1>7, <2>3
    <3>2. QED
      BY <2>1, <2>3, <3>1
  <2>4. QED
    BY <2>2, <2>3
<1>8. tool'[n] = b
  BY <1>4
<1>9. tool' \in [Runs -> Tool]
  BY <1>4, <1>6, <1>7, <1>8
<1>10. tool[n].pc = "idle" /\ (n > 1 => tool[n - 1].pc # "idle")
  BY DEF Publish
<1>11. QED
  BY <1>5, <1>6, <1>7, <1>8, <1>9, <1>10

LEMMA PublishInv ==
    ASSUME ToolInv, NEW n \in Runs, NEW f \in Files, Publish(n, f)
    PROVE  ToolInv'
<1>1. /\ tool[n].pc = "idle" /\ (n > 1 => tool[n - 1].pc # "idle")
      /\ tool' \in [Runs -> Tool]
      /\ \A m \in Runs : m # n =>
            /\ tool'[m].pc = tool[m].pc /\ tool'[m].file = tool[m].file /\ tool'[m].pos = tool[m].pos
            /\ tool'[m].clean => tool[m].clean /\ ~Busy(m)
            /\ ~Busy(m) => tool'[m] = tool[m]
      /\ tool'[n].file = f /\ tool'[n].pc \in {"refused", "done", "root"}
      /\ tool'[n].pc = "done" => ReadLines(f) = <<>>
      /\ tool'[n].clean => \A m \in Runs : ~Busy(m)
  BY PublishTools
<1>2. UNCHANGED <<root, node, proc, options>> /\ basis' \in {0, basis}
  BY DEF Publish, zoo
<1>3. /\ \A m \in Runs : m # n => Sec(m)' = Sec(m) /\ \A k : Wrote(m, k)' = Wrote(m, k)
      /\ \A m \in Runs : m # n => (Begun(m)' <=> Begun(m)) /\ (Busy(m)' <=> Busy(m)) /\ (AtKey(m)' <=> AtKey(m))
      /\ \A m \in Runs, q \in 1..4 : m # n => (Past(m, q)' <=> Past(m, q))
  BY <1>1 DEF Sec, Wrote, Begun, Busy, AtKey, Past
<1>4. ~AtKey(n)' /\ ~Begun(n) /\ ~Busy(n)
  BY <1>1 DEF AtKey, Begun, Busy
<1>5. Typed'
  BY <1>1, <1>2 DEF ToolInv, Typed
<1>6. AtItsKeys'
  BY <1>1, <1>3, <1>4 DEF ToolInv, AtItsKeys
<1>7. InOrder'
  <2>1. \A m \in Runs : m < n => tool[m].pc # "idle"
    <3>1. SUFFICES ASSUME NEW m \in Runs, m < n
                   PROVE  tool[m].pc # "idle"
      OBVIOUS
    <3>2. n - 1 \in Runs /\ n > 1 /\ (m = n - 1 \/ m < n - 1)
      BY <3>1, ConfigurationAssumption DEF Runs
    <3>3. QED
      BY <1>1, <3>2 DEF ToolInv, InOrder
  <2>2. \A m \in Runs : n < m => tool[m].pc = "idle"
    BY <1>1 DEF ToolInv, InOrder
  <2>3. QED
    BY <1>1, <2>1, <2>2, ConfigurationAssumption DEF ToolInv, InOrder, Runs
<1>8. \A m \in Runs : tool[m].pc # "idle" => m <= n
  BY <1>1, ConfigurationAssumption DEF ToolInv, InOrder, Runs
<1>9. Alone'
  <2>1. SUFFICES ASSUME NEW m \in Runs, NEW o \in Runs, tool'[o].clean, Begun(o)', Busy(m)'
                 PROVE  o <= m /\ (Busy(o)' => m = o)
    BY DEF Alone
  <2>2. CASE m = n /\ o = n
    BY <2>2, ConfigurationAssumption DEF Runs
  <2>3. CASE m = n /\ o # n
    <3>1. tool[o].pc # "idle" /\ ~Busy(o)
      BY <1>1, <1>3, <2>1, <2>3 DEF Begun
    <3>2. QED
      BY <1>3, <1>8, <2>3, <3>1
  <2>4. CASE m # n /\ o = n
    BY <1>1, <1>3, <2>1, <2>4
  <2>5. CASE m # n /\ o # n
    BY <1>1, <1>3, <2>1, <2>5 DEF ToolInv, Alone
  <2>6. QED
    BY <2>2, <2>3, <2>4, <2>5
<1>10. CreatesMissing'
  BY <1>1, <1>2, <1>3, <1>4 DEF ToolInv, CreatesMissing
<1>11. NodesWritten'
  BY <1>2, <1>3, <1>4 DEF ToolInv, NodesWritten
<1>12. NodesNotOlder'
  <2>1. SUFFICES ASSUME NEW m \in Runs, NEW q \in 1..4, tool'[m].clean, Past(m, q)', PublishOrder[q] \in Sec(m)'
                 PROVE  node'[PublishOrder[q]][1] >= m
    BY DEF NodesNotOlder
  <2>2. CASE m = n
    <3>1. ReadLines(f) = <<>> /\ f \in Seq(Lines)
      BY <1>1, <1>4, <2>1, <2>2, ConfigurationAssumption DEF Past
    <3>2. Sec(n)' = {}
      BY <1>1, <3>1, SectionFacts DEF Sec
    <3>3. QED
      BY <2>1, <2>2, <3>2
  <2>3. CASE m # n
    BY <1>1, <1>2, <1>3, <2>1, <2>3 DEF ToolInv, NodesNotOlder
  <2>4. QED
    BY <2>2, <2>3
<1>13. PortIsLast'
  <2>1. SUFFICES ASSUME node["port"] # Absent
                 PROVE  tool'[node["port"][1]].pc = "done"
    BY <1>2 DEF PortIsLast
  <2>2. node["port"][1] \in Runs
    BY <2>1, OrderFacts DEF ToolInv, Typed, Value
  <2>3. tool[node["port"][1]].pc = "done"
    BY <2>1 DEF ToolInv, PortIsLast
  <2>4. QED
    BY <1>1, <2>2, <2>3
<1>14. QED
  BY <1>5, <1>6, <1>7, <1>9, <1>10, <1>11, <1>12, <1>13 DEF ToolInv

\* The keys, nodes and runs do not change while the server loads, starts or
\* stops.
LEMMA ServerToolInv ==
    ASSUME ToolInv, UNCHANGED <<root, node, tool>>,
           proc' \in {"down", "loading", "running"}, options' \in Seq(Value), basis' \in Runs \cup {0}
    PROVE  ToolInv'
<1>1. Typed'
  BY DEF ToolInv, Typed
<1>2. AtItsKeys' /\ CreatesMissing'
  BY DEF ToolInv, AtItsKeys, CreatesMissing, AtKey, Sec
<1>3. InOrder' /\ Alone'
  BY DEF ToolInv, InOrder, Alone, Begun, Busy
<1>4. NodesWritten' /\ NodesNotOlder'
  BY DEF ToolInv, NodesWritten, NodesNotOlder, Begun, Sec, Wrote, Past, AtKey
<1>5. PortIsLast'
  BY DEF ToolInv, PortIsLast
<1>6. QED
  BY <1>1, <1>2, <1>3, <1>4, <1>5 DEF ToolInv

-----------------------------------------------------------------------------
(***************************************************************************)
(* The options that have been read                                         *)
(***************************************************************************)

\* The port that was read is that of a run.
LEMMA PortRead ==
    ASSUME Typed, options # <<>>
    PROVE  options[1] \in Value /\ options[1][1] \in Runs
<1>1. 1 \in 1..Len(options)
  BY DEF Typed
<1>2. options[1] \in Value
  BY <1>1 DEF Typed
<1>3. QED
  BY <1>2 DEF Value

\* While rcar-config runs, what a process has read and what it was started on
\* stays as it is: runs that are done do not change.
LEMMA ToolStepOptions ==
    ASSUME ToolInv, OptionsInv, UNCHANGED <<proc, options>>,
           \/ basis' = basis /\ (proc = "loading" => \E n \in Runs : Busy(n))
           \/ basis' = basis /\ proc # "loading"
           \/ basis' = 0,
           \A m \in Runs : tool[m].pc = "done" => tool'[m] = tool[m]
    PROVE  OptionsInv'
<1>1. LoadState'
  BY DEF OptionsInv, LoadState
<1>2. \A m \in Runs : tool[m].pc = "done" =>
          tool'[m] = tool[m] /\ Sec(m)' = Sec(m) /\ \A k : Wrote(m, k)' = Wrote(m, k)
  BY DEF Sec, Wrote
<1>3. ReadNotOlder'
  <2>1. SUFFICES ASSUME options # <<>>
                 PROVE  /\ tool'[options[1][1]].pc = "done"
                        /\ tool'[options[1][1]].clean =>
                               \A i \in 1..Len(options) :
                                   LoadOrder[i] \in Sec(options[1][1])' => options[i][1] >= options[1][1]
    BY DEF ReadNotOlder
  <2>2. options[1][1] \in Runs
    BY <2>1, PortRead DEF ToolInv
  <2>3. PICK n : n = options[1][1]
    OBVIOUS
  <2>4. /\ tool[n].pc = "done"
        /\ tool[n].clean => \A i \in 1..Len(options) : LoadOrder[i] \in Sec(n) => options[i][1] >= n
    BY <2>1, <2>3 DEF OptionsInv, ReadNotOlder
  <2>5. /\ tool'[n].pc = "done"
        /\ tool'[n].clean => \A i \in 1..Len(options) : LoadOrder[i] \in Sec(n)' => options[i][1] >= n
    BY <1>2, <2>2, <2>3, <2>4
  <2>6. QED
    BY <2>3, <2>5
<1>4. ReadsBasis'
  <2>1. SUFFICES ASSUME basis' # 0
                 PROVE  /\ tool'[basis'].pc = "done" /\ tool'[basis'].clean
                        /\ \A i \in 1..Len(options') :
                               LoadOrder[i] \in (Sec(basis))' => options'[i] = (Wrote(basis, LoadOrder[i]))'
                        /\ proc' = "loading" => \A m \in Runs : ~Busy(m)' /\ (m > basis' => ~Begun(m)')
    BY DEF ReadsBasis
  <2>2. basis' = basis /\ basis \in Runs /\ proc # "loading"
    BY <2>1 DEF ToolInv, Typed, OptionsInv, ReadsBasis
  <2>3. PICK b : b = basis
    OBVIOUS
  <2>4. /\ tool[b].pc = "done" /\ tool[b].clean
        /\ \A i \in 1..Len(options) : LoadOrder[i] \in Sec(b) => options[i] = Wrote(b, LoadOrder[i])
    BY <2>1, <2>2, <2>3 DEF OptionsInv, ReadsBasis
  <2>5. /\ tool'[b].pc = "done" /\ tool'[b].clean
        /\ \A i \in 1..Len(options) : LoadOrder[i] \in Sec(b)' => options[i] = Wrote(b, LoadOrder[i])'
    BY <1>2, <2>2, <2>3, <2>4
  <2>6. QED
    BY <2>2, <2>3, <2>5
<1>5. QED
  BY <1>1, <1>3, <1>4 DEF OptionsInv

\* The process starts: it has read nothing, on what Settled says.
LEMMA SettledFacts ==
    ASSUME Settled # 0
    PROVE  /\ Settled \in Runs /\ tool[Settled].pc = "done" /\ tool[Settled].clean
           /\ \A m \in Runs : ~Busy(m) /\ (m > Settled => ~Begun(m))
<1> DEFINE last == {n \in Runs : /\ tool[n].pc = "done" /\ tool[n].clean
                                 /\ \A m \in Runs : (m > n => ~Begun(m)) /\ ~Busy(m)}
<1>1. last # {} /\ Settled = CHOOSE n \in last : TRUE
  BY DEF Settled
<1>2. Settled \in last
  BY <1>1
<1>3. QED
  BY <1>2

LEMMA StartInv ==
    ASSUME ToolInv, OptionsInv, Start
    PROVE  ToolInv' /\ OptionsInv'
<1>1. /\ proc' = "loading" /\ options' = <<>> /\ UNCHANGED <<root, node, tool>>
      /\ basis' = Settled
  BY DEF Start, zoo
<1>2. PICK b : b = Settled
  OBVIOUS
<1>3. b # 0 => /\ b \in Runs /\ tool[b].pc = "done" /\ tool[b].clean
               /\ \A m \in Runs : ~Busy(m) /\ (m > b => ~Begun(m))
  BY <1>2, SettledFacts
<1>4. ToolInv'
  <2>1. options' \in Seq(Value) /\ basis' \in Runs \cup {0}
    BY <1>1, <1>2, <1>3
  <2>2. QED
    BY <1>1, <2>1, ServerToolInv
<1>5. LoadState' /\ ReadNotOlder'
  BY <1>1 DEF LoadState, ReadNotOlder
<1>6. basis' = b /\ Len(options') = 0
  BY <1>1, <1>2
<1>7. \A m \in Runs : (Busy(m)' <=> Busy(m)) /\ (Begun(m)' <=> Begun(m))
  BY <1>1 DEF Busy, Begun
<1>8. ReadsBasis'
  BY <1>1, <1>3, <1>6, <1>7 DEF ReadsBasis
<1>9. QED
  BY <1>4, <1>5, <1>8 DEF OptionsInv

\* The process ends: nothing that it has read is left.
LEMMA DownInv ==
    ASSUME ToolInv, OptionsInv, Down, UNCHANGED <<root, node, tool, basis>>
    PROVE  ToolInv' /\ OptionsInv'
<1>1. proc' = "down" /\ options' = <<>> /\ Len(options') = 0
  BY DEF Down
<1>2. ToolInv'
  <2>1. options' \in Seq(Value) /\ basis' \in Runs \cup {0}
    BY <1>1 DEF ToolInv, Typed
  <2>2. QED
    BY <1>1, <2>1, ServerToolInv
<1>3. LoadState' /\ ReadNotOlder'
  BY <1>1 DEF LoadState, ReadNotOlder
<1>4. ReadsBasis'
  BY <1>1 DEF OptionsInv, ReadsBasis
<1>5. QED
  BY <1>2, <1>3, <1>4 DEF OptionsInv

\* The process has read everything and listens.
LEMMA ListenInv ==
    ASSUME ToolInv, OptionsInv, Len(options) = 4, Listen, UNCHANGED <<root, node, tool, basis>>
    PROVE  ToolInv' /\ OptionsInv'
<1>1. proc' = "running" /\ options' = options
  BY DEF Listen
<1>2. ToolInv'
  <2>1. options' \in Seq(Value) /\ basis' \in Runs \cup {0}
    BY <1>1 DEF ToolInv, Typed
  <2>2. QED
    BY <1>1, <2>1, ServerToolInv
<1>3. LoadState'
  <2>1. proc' # "down" /\ Len(options') = 4 /\ 4 <= 4
    BY <1>1
  <2>2. QED
    BY <2>1 DEF LoadState
<1>4. ReadNotOlder' /\ ReadsBasis'
  BY <1>1 DEF OptionsInv, ReadNotOlder, ReadsBasis, Sec, Wrote
<1>5. QED
  BY <1>2, <1>3, <1>4 DEF OptionsInv

\* What a node holds for a key of an undisturbed run that is done.
LEMMA NodeOf ==
    ASSUME ToolInv, NEW n \in Runs, tool[n].pc = "done", tool[n].clean, NEW k \in Keys, k \in Sec(n)
    PROVE  node[k][1] >= n
<1>1. PICK q \in 1..4 : PublishOrder[q] = k
  BY KeyAt
<1>2. Past(n, q)
  BY DEF Past
<1>3. QED
  BY <1>1, <1>2 DEF ToolInv, NodesNotOlder

LEMMA ReadInv ==
    ASSUME ToolInv, OptionsInv, proc = "loading", Len(options) < 4,
           NEW k, k = LoadOrder[Len(options) + 1], node[k] # Absent,
           options' = Append(options, node[k]), UNCHANGED <<root, node, tool, basis, proc>>
    PROVE  ToolInv' /\ OptionsInv'
<1>1. options \in Seq(Value) /\ Len(options) \in Nat
  BY DEF ToolInv, Typed
<1>2. Len(options) + 1 \in 1..4
  BY <1>1
<1>3. k \in Keys
  BY <1>2, KeyAt
<1>4. node[k] \in Value /\ node[k][1] \in Runs
  BY <1>3 DEF ToolInv, Typed, Value
<1>5. /\ options' \in Seq(Value) /\ Len(options') = Len(options) + 1
      /\ \A i \in 1..Len(options) : options'[i] = options[i]
      /\ options'[Len(options) + 1] = node[k]
  BY <1>1, <1>4
<1>6. \A i \in 1..Len(options') : i \in 1..Len(options) \/ i = Len(options) + 1
  BY <1>1, <1>5
<1>7. ToolInv'
  <2>1. proc' \in {"down", "loading", "running"} /\ basis' \in Runs \cup {0}
    BY DEF ToolInv, Typed
  <2>2. QED
    BY <1>5, <2>1, ServerToolInv
<1>8. LoadState'
  BY <1>1, <1>5 DEF LoadState
<1>9. ReadNotOlder'
  <2>1. PICK n : n = options'[1][1]
    OBVIOUS
  <2>2. SUFFICES /\ tool[n].pc = "done"
                 /\ tool[n].clean => \A i \in 1..Len(options') : LoadOrder[i] \in Sec(n) => options'[i][1] >= n
    BY <2>1 DEF ReadNotOlder, Sec
  <2>3. CASE Len(options) = 0
    <3>1. k = "port" /\ options'[1] = node[k] /\ n = node[k][1] /\ n \in Runs
      BY <1>4, <1>5, <2>1, <2>3, OrderFacts
    <3>2. tool[n].pc = "done"
      BY <3>1 DEF ToolInv, PortIsLast
    <3>3. \A i \in 1..Len(options') : i = 1
      BY <1>5, <2>3
    <3>4. options'[1][1] >= n
      BY <3>1, ConfigurationAssumption DEF Runs
    <3>5. QED
      BY <3>2, <3>3, <3>4
  <2>4. CASE Len(options) # 0
    <3>1. options # <<>> /\ 1 \in 1..Len(options)
      BY <1>1, <2>4
    <3>2. n = options[1][1] /\ n \in Runs
      BY <1>5, <2>1, <3>1, PortRead DEF ToolInv
    <3>3. /\ tool[n].pc = "done"
          /\ tool[n].clean => \A i \in 1..Len(options) : LoadOrder[i] \in Sec(n) => options[i][1] >= n
      BY <3>1, <3>2 DEF OptionsInv, ReadNotOlder
    <3>4. tool[n].clean /\ k \in Sec(n) => node[k][1] >= n
      BY <1>3, <3>2, <3>3, NodeOf
    <3>5. ASSUME tool[n].clean, NEW i \in 1..Len(options'), LoadOrder[i] \in Sec(n)
          PROVE  options'[i][1] >= n
      <4>1. CASE i \in 1..Len(options)
        BY <1>5, <3>3, <3>5, <4>1
      <4>2. CASE i = Len(options) + 1
        BY <1>5, <3>4, <3>5, <4>2
      <4>3. QED
        BY <1>6, <4>1, <4>2
    <3>6. QED
      BY <3>3, <3>5
  <2>5. QED
    BY <2>3, <2>4
<1>10. ReadsBasis'
  <2>1. PICK b : b = basis
    OBVIOUS
  <2>2. SUFFICES ASSUME b # 0
                 PROVE  /\ tool[b].pc = "done" /\ tool[b].clean
                        /\ \A i \in 1..Len(options') : LoadOrder[i] \in Sec(b) => options'[i] = Wrote(b, LoadOrder[i])
                        /\ \A m \in Runs : ~Busy(m) /\ (m > b => ~Begun(m))
    BY <2>1 DEF ReadsBasis, Sec, Wrote, Busy, Begun
  <2>3. /\ tool[b].pc = "done" /\ tool[b].clean
        /\ \A i \in 1..Len(options) : LoadOrder[i] \in Sec(b) => options[i] = Wrote(b, LoadOrder[i])
        /\ \A m \in Runs : ~Busy(m) /\ (m > b => ~Begun(m))
    BY <2>1, <2>2 DEF OptionsInv, ReadsBasis
  <2>4. b \in Runs
    BY <2>1, <2>2 DEF ToolInv, Typed
  <2>5. ASSUME k \in Sec(b)
        PROVE  node[k] = Wrote(b, k)
    <3>1. node[k][1] >= b
      BY <1>3, <2>3, <2>4, <2>5, NodeOf
    <3>2. PICK m \in Runs : m = node[k][1]
      BY <1>4
    <3>3. Begun(m) /\ node[k] = Wrote(m, k)
      BY <1>3, <3>2 DEF ToolInv, NodesWritten
    <3>4. m = b
      BY <2>3, <2>4, <3>1, <3>2, <3>3, ConfigurationAssumption DEF Runs
    <3>5. QED
      BY <3>3, <3>4
  <2>6. ASSUME NEW i \in 1..Len(options'), LoadOrder[i] \in Sec(b)
        PROVE  options'[i] = Wrote(b, LoadOrder[i])
    <3>1. CASE i \in 1..Len(options)
      BY <1>5, <2>3, <2>6, <3>1
    <3>2. CASE i = Len(options) + 1
      BY <1>5, <2>5, <2>6, <3>2
    <3>3. QED
      BY <1>6, <3>1, <3>2
  <2>7. QED
    BY <2>3, <2>6
<1>11. QED
  BY <1>7, <1>8, <1>9, <1>10 DEF OptionsInv

LEMMA LoadInv ==
    ASSUME ToolInv, OptionsInv, Load
    PROVE  ToolInv' /\ OptionsInv'
<1>1. PICK k : k = LoadOrder[Len(options) + 1]
  OBVIOUS
<1>2. proc = "loading" /\ UNCHANGED <<root, node, tool, basis>>
  BY DEF Load, zoo
<1>3. \/ Len(options) < 4 /\ node[k] # Absent /\ options' = Append(options, node[k]) /\ UNCHANGED proc
      \/ Down
      \/ Len(options) = 4 /\ Listen
  BY <1>1, OrderFacts DEF Load
<1>4. QED
  BY <1>1, <1>2, <1>3, ReadInv, DownInv, ListenInv

-----------------------------------------------------------------------------
(***************************************************************************)
(* The server as a whole                                                   *)
(***************************************************************************)

ConfigInv == ToolInv /\ OptionsInv

LEMMA InitConfigInv == Init => ConfigInv
<1>1. SUFFICES ASSUME Init PROVE ConfigInv
  OBVIOUS
<1>2. /\ root = FALSE /\ node = [k \in Keys |-> Absent] /\ tool = [n \in Runs |-> Idle]
      /\ proc = "down" /\ options = <<>> /\ basis = 0
  BY <1>1 DEF Init
<1>3. Idle \in Tool /\ Idle.pc = "idle"
  BY DEF Idle, Tool, Stages
<1>4. Typed
  <2>1. tool \in [Runs -> Tool] /\ node \in [Keys -> Value \cup {Absent}]
    BY <1>2, <1>3
  <2>2. options \in Seq(Value)
    BY <1>2
  <2>3. proc \in {"down", "loading", "running"} /\ basis \in Runs \cup {0} /\ root \in BOOLEAN
    BY <1>2
  <2>4. QED
    BY <2>1, <2>2, <2>3 DEF Typed
<1>5. \A n \in Runs : tool[n].pc = "idle"
  BY <1>2, <1>3
<1>6. \A n \in Runs : ~AtKey(n) /\ ~Begun(n) /\ \A q \in 1..4 : ~Past(n, q)
  BY <1>5 DEF AtKey, Begun, Past
<1>7. AtItsKeys /\ InOrder /\ Alone /\ CreatesMissing /\ NodesNotOlder
  BY <1>5, <1>6 DEF AtItsKeys, InOrder, Alone, CreatesMissing, NodesNotOlder
<1>8. \A k \in Keys : node[k] = Absent /\ node[k][1] \notin Runs
  BY <1>2, ConfigurationAssumption DEF Absent, Runs
<1>9. NodesWritten /\ PortIsLast
  BY <1>8, OrderFacts DEF NodesWritten, PortIsLast
<1>10. OptionsInv
  BY <1>2 DEF OptionsInv, LoadState, ReadNotOlder, ReadsBasis
<1>11. QED
  BY <1>4, <1>7, <1>9, <1>10 DEF ConfigInv, ToolInv

\* A step of rcar-config changes no run that is done, and comes with a run that
\* goes on, or with the end of the settled state.
LEMMA RunStepInv ==
    ASSUME ConfigInv, NEW n \in Runs, Steps(n)
    PROVE  ConfigInv' /\ UNCHANGED <<proc, options, basis>>
           /\ \A m \in Runs : tool[m].pc = "done" => tool'[m] = tool[m]
<1>1. ToolInv /\ OptionsInv
  BY DEF ConfigInv
<1>2. ToolInv' /\ Moved(n, tool')
  BY <1>1, TestRootInv, MakeRootInv, TestNodeInv, WriteNodeInv, InterruptInv DEF Steps
<1>3. Busy(n) /\ UNCHANGED <<proc, options, basis>>
  BY DEF Steps, TestRoot, MakeRoot, TestNode, WriteNode, Interrupt, Busy, server
<1>4. \A m \in Runs : tool[m].pc = "done" => tool'[m] = tool[m]
  BY <1>2, <1>3, BusyFacts DEF Moved
<1>5. OptionsInv'
  BY <1>1, <1>3, <1>4, ToolStepOptions
<1>6. QED
  BY <1>2, <1>3, <1>4, <1>5 DEF ConfigInv

LEMMA PublishStepInv ==
    ASSUME ConfigInv, NEW n \in Runs, NEW f \in Files, Publish(n, f)
    PROVE  ConfigInv' /\ UNCHANGED <<proc, options>> /\ basis' \in {0, basis}
           /\ \A m \in Runs : tool[m].pc = "done" => tool'[m] = tool[m]
<1>1. ToolInv /\ OptionsInv
  BY DEF ConfigInv
<1>2. ToolInv'
  BY <1>1, PublishInv
<1>3. \A m \in Runs : tool[m].pc = "done" => tool'[m] = tool[m]
  BY <1>1, PublishTools DEF Busy
<1>4. UNCHANGED <<proc, options>> /\ basis' = IF proc = "loading" THEN 0 ELSE basis
  BY DEF Publish
<1>5. OptionsInv'
  BY <1>1, <1>3, <1>4, ToolStepOptions
<1>6. QED
  BY <1>2, <1>3, <1>4, <1>5 DEF ConfigInv

\* The value of a key is what was read at the key's place in LoadOrder.
LEMMA OptionFacts ==
    ASSUME NEW k \in Keys
    PROVE  \E i \in 1..4 : LoadOrder[i] = k /\ Option(k) = options[i]
<1>1. DOMAIN LoadOrder = 1..4
  BY DEF LoadOrder
<1>2. PICK i \in 1..4 : LoadOrder[i] = k
  BY KeyAt
<1>3. PICK j : j = CHOOSE i0 \in DOMAIN LoadOrder : LoadOrder[i0] = k
  OBVIOUS
<1>4. j \in 1..4 /\ LoadOrder[j] = k
  BY <1>1, <1>2, <1>3
<1>5. Option(k) = options[j]
  BY <1>3 DEF Option
<1>6. QED
  BY <1>4, <1>5

\* What the invariant says of a running server.
LEMMA RunningOptions ==
    ASSUME ConfigInv, proc = "running"
    PROVE  FreshStartUsesPublished /\ NewPortMeansNewOptions
<1>1. ToolInv /\ OptionsInv /\ Len(options) = 4 /\ options # <<>>
  BY DEF ConfigInv, OptionsInv, LoadState
<1>2. ASSUME basis # 0, Short(tool[basis].file), NEW k \in Keys, ItemsFor(tool[basis].file, k) # {}
      PROVE  Option(k) = ValueOf(basis, Says(tool[basis].file, k))
  <2>1. basis \in Runs /\ tool[basis].file \in Seq(Lines)
    BY <1>1, <1>2 DEF ToolInv, Typed, Tool
  <2>2. k \in Sec(basis) /\ Section(tool[basis].file)[k] = Says(tool[basis].file, k)
    BY <1>2, <2>1, SectionFacts DEF Sec
  <2>3. PICK i \in 1..4 : LoadOrder[i] = k /\ Option(k) = options[i]
    BY OptionFacts
  <2>4. options[i] = Wrote(basis, k)
    BY <1>1, <1>2, <2>2, <2>3 DEF OptionsInv, ReadsBasis
  <2>5. QED
    BY <2>2, <2>3, <2>4 DEF Wrote
<1>3. FreshStartUsesPublished
  BY <1>2 DEF FreshStartUsesPublished
<1>4. PICK n : n = Option("port")[1]
  OBVIOUS
<1>5. n = options[1][1] /\ n \in Runs
  <2>1. PICK i \in 1..4 : LoadOrder[i] = "port" /\ Option("port") = options[i]
    BY OptionFacts, OrderFacts
  <2>2. 1 \in 1..4 /\ LoadOrder[1] = "port"
    BY OrderFacts
  <2>3. i = 1
    BY <2>1, <2>2, KeyAt
  <2>4. QED
    BY <1>1, <1>4, <2>1, <2>3, PortRead DEF ToolInv
<1>6. ASSUME tool[n].clean, NEW k \in DOMAIN Section(tool[n].file)
      PROVE  Option(k)[1] >= n
  <2>1. tool[n].file \in Seq(Lines)
    BY <1>1, <1>5 DEF ToolInv, Typed, Tool
  <2>2. k \in Keys /\ k \in Sec(n)
    BY <2>1, SectionFacts DEF Sec
  <2>3. PICK i \in 1..4 : LoadOrder[i] = k /\ Option(k) = options[i]
    BY <2>2, OptionFacts
  <2>4. options[i][1] >= n
    BY <1>1, <1>5, <1>6, <2>2, <2>3 DEF OptionsInv, ReadNotOlder
  <2>5. QED
    BY <2>3, <2>4
<1>7. NewPortMeansNewOptions
  BY <1>4, <1>6 DEF NewPortMeansNewOptions
<1>8. QED
  BY <1>3, <1>7

-----------------------------------------------------------------------------
(***************************************************************************)
(* The database that the handlers use                                      *)
(***************************************************************************)

\* A step that leaves the process, what it has read and what its handlers have
\* used alone, or starts the process on another basis.
LEMMA UsedKept ==
    ASSUME AplInv, ConfigInv',
           used' = used \/ used' = {}, used' = {} \/ basis' \in {0, basis},
           proc' = "loading" => used' = {},
           proc' = "running" => used' = {} \/ (proc = "running" /\ options' = options),
           \A m \in Runs : tool[m].pc = "done" => tool'[m] = tool[m]
    PROVE  AplInv'
<1>1. ToolInv' /\ OptionsInv'
  BY DEF ConfigInv
<1>2. CASE used' = {}
  BY <1>1, <1>2 DEF AplInv, UsesOwnOption, AnsweredFromOneDatabase
<1>3. CASE used' # {}
  <2>1. used' = used /\ basis' \in {0, basis}
    BY <1>3
  <2>2. UsesOwnOption'
    <3>1. proc' = "running" => proc = "running" /\ options' = options
      BY <1>3
    <3>2. proc' = "running" => getDBServer' = getDBServer
      BY <3>1 DEF getDBServer, Option
    <3>3. QED
      BY <2>1, <3>1, <3>2 DEF AplInv, UsesOwnOption
  <2>3. \A d, e \in used' : d = e
    BY <2>1 DEF AplInv, AnsweredFromOneDatabase
  <2>4. basis' # 0 => basis' = basis /\ tool'[basis] = tool[basis]
    BY <2>1 DEF AplInv, OptionsInv, ReadsBasis, ToolInv, Typed
  <2>5. AnsweredFromOneDatabase'
    BY <2>1, <2>3, <2>4 DEF AplInv, AnsweredFromOneDatabase
  <2>6. QED
    BY <1>1, <2>2, <2>5 DEF AplInv
<1>4. QED
  BY <1>2, <1>3

LEMMA ServeInv ==
    ASSUME AplInv, NEW c \in Conns, Serve(c)
    PROVE  AplInv'
<1>1. proc = "running" /\ UNCHANGED vars /\ (used' = used \/ used' = used \cup {getDBServer})
  BY DEF Serve
<1>2. UNCHANGED <<root, node, tool, proc, options, basis>>
  BY <1>1 DEF vars
<1>3. ConfigInv
  BY DEF AplInv, ConfigInv
<1>4. ToolInv'
  BY <1>2, ServerToolInv DEF AplInv, ToolInv, Typed
<1>5. OptionsInv'
  BY <1>2 DEF AplInv, OptionsInv, LoadState, ReadNotOlder, ReadsBasis, Sec, Wrote, Busy, Begun
<1>6. getDBServer' = getDBServer
  BY <1>2 DEF getDBServer, Option
<1>7. used' \subseteq {getDBServer}
  BY <1>1 DEF AplInv, UsesOwnOption
<1>8. UsesOwnOption'
  BY <1>1, <1>2, <1>6, <1>7 DEF UsesOwnOption
<1>9. AnsweredFromOneDatabase'
  <2>1. ASSUME basis # 0, Short(tool[basis].file), ItemsFor(tool[basis].file, "mongo-server") # {}
        PROVE  getDBServer = ValueOf(basis, Says(tool[basis].file, "mongo-server"))
    <3>1. FreshStartUsesPublished /\ "mongo-server" \in Keys
      BY <1>1, <1>3, RunningOptions, OrderFacts
    <3>2. QED
      BY <1>1, <2>1, <3>1 DEF FreshStartUsesPublished, getDBServer
  <2>2. QED
    BY <1>2, <1>7, <2>1 DEF AnsweredFromOneDatabase
<1>10. QED
  BY <1>4, <1>5, <1>8, <1>9 DEF AplInv

\* A step that touches none of these variables.
LEMMA SameInv ==
    ASSUME AplInv, UNCHANGED <<vars, used>>
    PROVE  AplInv'
<1>1. UNCHANGED <<root, node, tool, proc, options, basis, used>>
  BY DEF vars
<1>2. ToolInv'
  BY <1>1, ServerToolInv DEF AplInv, ToolInv, Typed
<1>3. OptionsInv'
  BY <1>1 DEF AplInv, OptionsInv, LoadState, ReadNotOlder, ReadsBasis, Sec, Wrote, Busy, Begun
<1>4. getDBServer' = getDBServer
  BY <1>1 DEF getDBServer, Option
<1>5. UsesOwnOption' /\ AnsweredFromOneDatabase'
  BY <1>1, <1>4 DEF AplInv, UsesOwnOption, AnsweredFromOneDatabase
<1>6. QED
  BY <1>2, <1>3, <1>5 DEF AplInv

LEMMA AplNextInv == AplInv /\ [AplNext]_aplVars => AplInv'
<1>1. SUFFICES ASSUME AplInv, [AplNext]_aplVars PROVE AplInv'
  OBVIOUS
<1>2. ConfigInv /\ ToolInv /\ OptionsInv
  BY <1>1 DEF AplInv, ConfigInv
<1>3. CASE Publication
  <2>1. used' = used
    BY <1>3 DEF Publication
  <2>2. ASSUME NEW n \in Runs, NEW f \in Files, Publish(n, f)
        PROVE  AplInv'
    <3>1. ConfigInv' /\ UNCHANGED <<proc, options>> /\ basis' \in {0, basis}
          /\ \A m \in Runs : tool[m].pc = "done" => tool'[m] = tool[m]
      BY <1>2, <2>2, PublishStepInv
    <3>2. proc' = "loading" => used' = {}
      BY <1>1, <2>1, <3>1 DEF AplInv, UsesOwnOption
    <3>3. QED
      BY <1>1, <2>1, <3>1, <3>2, UsedKept
  <2>3. ASSUME NEW n \in Runs, Steps(n)
        PROVE  AplInv'
    <3>1. ConfigInv' /\ UNCHANGED <<proc, options, basis>>
          /\ \A m \in Runs : tool[m].pc = "done" => tool'[m] = tool[m]
      BY <1>2, <2>3, RunStepInv
    <3>2. proc' = "loading" => used' = {}
      BY <1>1, <2>1, <3>1 DEF AplInv, UsesOwnOption
    <3>3. QED
      BY <1>1, <2>1, <3>1, <3>2, UsedKept
  <2>4. QED
    BY <1>3, <2>2, <2>3 DEF Publication, Steps
<1>4. CASE StartUp
  <2>1. CASE Start /\ used' = {}
    <3>1. ConfigInv' /\ proc' = "loading" /\ tool' = tool
      BY <1>2, <2>1, StartInv DEF ConfigInv, Start
    <3>2. QED
      BY <1>1, <2>1, <3>1, UsedKept
  <2>2. CASE Load /\ UNCHANGED used
    <3>1. ConfigInv'
      BY <1>2, <2>2, LoadInv DEF ConfigInv
    <3>2. proc = "loading" /\ tool' = tool
      BY <2>2 DEF Load
    <3>3. used' = {}
      BY <1>1, <2>2, <3>2 DEF AplInv, UsesOwnOption
    <3>4. QED
      BY <1>1, <3>1, <3>2, <3>3, UsedKept
  <2>3. QED
    BY <1>4, <2>1, <2>2 DEF StartUp
<1>5. CASE Exit
  <2>1. Down /\ UNCHANGED <<root, node, tool, basis, used>>
    BY <1>5 DEF Exit, Stop, zoo
  <2>2. ConfigInv' /\ proc' = "down"
    BY <1>2, <2>1, DownInv DEF ConfigInv, Down
  <2>3. QED
    BY <1>1, <2>1, <2>2, UsedKept
<1>6. ASSUME NEW c \in Conns, Client(c)
      PROVE  AplInv'
  BY <1>1, <1>6, SameInv DEF Client
<1>7. ASSUME NEW c \in Conns, Serve(c)
      PROVE  AplInv'
  BY <1>1, <1>7, ServeInv
<1>8. CASE UNCHANGED aplVars
  BY <1>1, <1>8, SameInv DEF aplVars
<1>9. QED
  BY <1>1, <1>3, <1>4, <1>5, <1>6, <1>7, <1>8 DEF AplNext

LEMMA AplServerInv == AplSpec => []AplInv
<1>1. AplInit => AplInv
  <2>1. SUFFICES ASSUME AplInit PROVE AplInv
    OBVIOUS
  <2>2. ConfigInv /\ used = {} /\ proc = "down"
    BY <2>1, InitConfigInv DEF AplInit, Init
  <2>3. QED
    BY <2>2 DEF AplInv, ConfigInv, UsesOwnOption, AnsweredFromOneDatabase
<1>2. QED
  BY <1>1, AplNextInv, PTL DEF AplSpec

\* A server that was started when the last publication had ended undisturbed
\* runs with exactly what that file says: updateConfigItems() of rcar-config
\* repairs whatever earlier runs left, for any number of runs and failures.
THEOREM AplFreshStart == AplSpec => []FreshStartUsesPublished
<1>1. AplInv => FreshStartUsesPublished
  BY RunningOptions DEF AplInv, ConfigInv, FreshStartUsesPublished
<1>2. QED
  BY <1>1, AplServerInv, PTL

\* loadConfigs() reads the port first and rcar-config writes it last: a server
\* that has the port of an undisturbed publication has nothing older.
THEOREM AplNewPort == AplSpec => []NewPortMeansNewOptions
<1>1. AplInv => NewPortMeansNewOptions
  BY RunningOptions DEF AplInv, ConfigInv, NewPortMeansNewOptions
<1>2. QED
  BY <1>1, AplServerInv, PTL

\* All requests that one process answers work on one database, and on the one
\* that was published when the process was started on a settled configuration.
THEOREM AplOneDatabase == AplSpec => []AnsweredFromOneDatabase
<1>1. AplInv => AnsweredFromOneDatabase
  BY DEF AplInv
<1>2. QED
  BY <1>1, AplServerInv, PTL
=============================================================================
