---------------------------- MODULE Configuration ----------------------------
(***************************************************************************)
(* How a server gets its options.  rcar-config (tool/config/config.cpp)    *)
(* reads a file with lib/config-file.cpp and copies the options of the     *)
(* server's section into ZooKeeper nodes, one call after the other.  The   *)
(* server (lib/sys-config.cpp, config-zookeeper.cpp, zkeeper.cpp) reads    *)
(* the nodes once, while it starts, and keeps what it read.                *)
(*                                                                         *)
(* Every call to ZooKeeper is one step and may fail.  Several runs of the  *)
(* tool may overlap with each other and with the start of the server.  No  *)
(* watch is ever set for a server: getNode passes 0 for it.                *)
(***************************************************************************)
EXTENDS Naturals, Sequences, SequencesExt

CONSTANTS
    Files,        \* the files an operator may publish, as sequences of Lines
    MaxRuns,      \* bound: how often rcar-config is run
    MaxFaults,    \* bound: how many calls to ZooKeeper fail
    MaxStarts     \* bound: how often the server is started

\* Variant: the keys in the order of the lines of the file.
FileOrder == <<"mongo-server", "port", "log-level", "log-file">>

\* The keys of the server's section, in the order of the std::map that
\* get_keys() walks: rcar-config writes them in this order.
PublishOrder == <<"log-file", "log-level", "mongo-server", "port">>
Keys == ToSet(PublishOrder)

\* "blank": a line without "=", skipped with a warning.  "broken": an empty key
\* or value, or a header without a name, for which strip() throws.  "overlong":
\* a line that does not fit the buffer of getline().
Lines == [kind : {"section", "blank", "broken", "overlong"}]
             \cup [kind : {"item"}, key : Keys]

ASSUME ConfigurationAssumption ==
    /\ Files \subseteq Seq(Lines)
    /\ MaxRuns \in Nat /\ MaxFaults \in Nat /\ MaxStarts \in Nat

Runs == 1..MaxRuns

\* The value on line i of the file of run n.
Value == Runs \X Nat
Absent == <<0, 0>>
ValueOf(n, i) == <<n, i>>

VARIABLES
    root,      \* whether the node of the section exists
    node,      \* the node of each key; Absent if there is none
    tool,      \* each run of rcar-config
    proc,      \* the server process: "down", "loading", "running"
    options,   \* _options, the values read so far, in the order of LoadOrder
    starts,    \* how often it was started
    faults,    \* calls that have failed
    basis      \* Settled when the process started; 0 once a run began meanwhile

vars == <<root, node, tool, proc, options, starts, faults, basis>>
zoo == <<root, node>>
server == <<proc, options, starts, basis>>

-----------------------------------------------------------------------------
(***************************************************************************)
(* ConfigFile::analyze()                                                   *)
(***************************************************************************)

First(S) == CHOOSE i \in S : \A j \in S : i <= j

\* getline() fails on a line that is too long, and the loop ends as it does at
\* the end of the file.
ReadLines(f) ==
    LET long == {i \in DOMAIN f : f[i].kind = "overlong"}
    IN IF long = {} THEN f ELSE SubSeq(f, 1, First(long) - 1)

\* An exception: something comes before the first section, the section comes
\* twice, or a line is broken.
Refuses(f) ==
    LET g == ReadLines(f)
        section(i) == g[i].kind = "section"
    IN \/ \E i \in DOMAIN g : g[i].kind = "broken"
       \/ g # <<>> /\ ~section(1)
       \/ \E i, j \in DOMAIN g : i # j /\ section(i) /\ section(j)

\* The lines of a file for a key.
ItemsFor(f, k) == {i \in DOMAIN f : f[i].kind = "item" /\ f[i].key = k}

\* The section that the loop over the lines builds: the keys that were read and
\* the line of each.  A key that the map has already is not inserted again, so
\* that the first line for a key counts.
Section(f) ==
    LET g == ReadLines(f)
    IN [k \in {k \in Keys : ItemsFor(g, k) # {}} |-> First(ItemsFor(g, k))]

-----------------------------------------------------------------------------
(***************************************************************************)
(* rcar-config -f: updateConfigItems()                                     *)
(***************************************************************************)

\* pc: the call to ZooKeeper that comes next.  pos: the position in PublishOrder.
\* clean: every call so far has succeeded, and no other run has been under way
\* at the same time.
Idle == [pc |-> "idle", file |-> <<>>, pos |-> 0, clean |-> TRUE]

Busy(n) == tool[n].pc \in {"root", "makeroot", "exists", "create", "set"}

\* get_keys() and get_string(): the next key of the section from position p on.
NextPos(f, p) ==
    LET later == {q \in p..Len(PublishOrder) : PublishOrder[q] \in DOMAIN Section(f)}
    IN IF later = {} THEN 0 ELSE First(later)

Goto(n, pc, pos) == [tool EXCEPT ![n].pc = pc, ![n].pos = pos]

\* Back to the head of the loop over the keys, or out of it.
ToKey(t, n, p) ==
    LET q == NextPos(t[n].file, p)
    IN [t EXCEPT ![n].pc = IF q = 0 THEN "done" ELSE "exists", ![n].pos = q]

\* The file is analysed; a run that begins while another goes on disturbs both.
Publish(n, f) ==
    /\ tool[n].pc = "idle"
    /\ n > 1 => tool[n - 1].pc # "idle"
    /\ LET others == {o \in Runs : Busy(o)}
           begins == [pc |-> IF Refuses(f) THEN "refused"
                             ELSE IF ReadLines(f) = <<>> THEN "done" ELSE "root",
                      file |-> f, pos |-> 0, clean |-> others = {}]
       IN tool' = [o \in Runs |->
                      IF o = n THEN begins
                      ELSE IF o \in others THEN [tool[o] EXCEPT !.clean = FALSE] ELSE tool[o]]
    /\ basis' = IF proc = "loading" THEN 0 ELSE basis
    /\ UNCHANGED <<zoo, proc, options, starts, faults>>

Lost(t, n) ==
    /\ faults < MaxFaults
    /\ faults' = faults + 1
    /\ tool' = [t EXCEPT ![n].clean = FALSE]
    /\ UNCHANGED zoo

\* isNodeExist() of the section; what could not be asked does not exist.
TestRoot(n) ==
    /\ tool[n].pc = "root"
    /\ LET missing == Goto(n, "makeroot", 0)
       IN \/ /\ tool' = IF root THEN ToKey(tool, n, 1) ELSE missing
             /\ UNCHANGED <<zoo, faults>>
          \/ Lost(missing, n)
    /\ UNCHANGED server

\* The return value of createNode() is not looked at.
MakeRoot(n) ==
    /\ tool[n].pc = "makeroot"
    /\ \/ /\ root' = TRUE
          /\ tool' = ToKey(tool, n, 1)
          /\ UNCHANGED <<node, faults>>
       \/ Lost(ToKey(tool, n, 1), n)
    /\ UNCHANGED server

TestNode(n) ==
    /\ tool[n].pc = "exists"
    /\ LET k == PublishOrder[tool[n].pos]
           missing == Goto(n, "create", tool[n].pos)
       IN \/ /\ tool' = IF node[k] = Absent THEN missing ELSE Goto(n, "set", tool[n].pos)
             /\ UNCHANGED <<zoo, faults>>
          \/ Lost(missing, n)
    /\ UNCHANGED server

\* Variant: an option that has a node already is left as it is.
StoreOnce(n, k) ==
    IF node[k] = Absent THEN [node EXCEPT ![k] = ValueOf(n, Section(tool[n].file)[k])]
    ELSE node

Store(n, k) == [node EXCEPT ![k] = ValueOf(n, Section(tool[n].file)[k])]

\* zoo_create fails when the node has come into being or its parent is missing.
\* Neither return value is looked at.
WriteNode(n) ==
    /\ tool[n].pc \in {"create", "set"}
    /\ LET k == PublishOrder[tool[n].pos]
           after == ToKey(tool, n, tool[n].pos + 1)
           refused == tool[n].pc = "create" /\ (node[k] # Absent \/ ~root)
       IN \/ /\ node' = IF refused THEN node ELSE Store(n, k)
             /\ tool' = after
             /\ UNCHANGED <<root, faults>>
          \/ Lost(after, n)
    /\ UNCHANGED server

\* The operator interrupts it, or the machine goes down.
Interrupt(n) ==
    /\ Busy(n)
    /\ tool' = [tool EXCEPT ![n].pc = "interrupted", ![n].clean = FALSE]
    /\ UNCHANGED <<zoo, server, faults>>

-----------------------------------------------------------------------------
(***************************************************************************)
(* The server: main(), SystemConfig::create() and loadConfigs()            *)
(***************************************************************************)

LoadOrder == <<"port", "log-file", "log-level", "mongo-server">>

Begun(n) == tool[n].pc \notin {"idle", "refused"}

\* The last run that got as far as ZooKeeper, when it has ended and nothing has
\* disturbed it; or 0.
Settled ==
    LET last == {n \in Runs : /\ tool[n].pc = "done" /\ tool[n].clean
                              /\ \A m \in Runs : (m > n => ~Begun(m)) /\ ~Busy(m)}
    IN IF last = {} THEN 0 ELSE CHOOSE n \in last : TRUE

\* Whatever "-c" says, CmdlineConfig::parse() refuses every option (its table
\* is a pointer, and sizeof makes it empty) and the file is the default one.
\* When that file names no ZooKeeper the process ends: create() returns FALSE
\* or getGeneral() dereferences a null pointer.
Start ==
    /\ proc = "down"
    /\ starts < MaxStarts
    /\ starts' = starts + 1
    /\ proc' = "loading"
    /\ options' = <<>>
    /\ basis' = Settled
    /\ UNCHANGED <<zoo, tool, faults>>

\* The server runs, with what it read.
Listen == proc' = "running" /\ UNCHANGED options

Down == proc' = "down" /\ options' = <<>>

\* getGeneral() of the next key: what getNode() yields is cached, and an empty
\* value, of a node that is missing or could not be read, ends main().  After
\* the last key main() initialises the log and binds the port, or ends.
Load ==
    /\ proc = "loading"
    /\ LET k == LoadOrder[Len(options) + 1]
       IN \/ /\ Len(options) < Len(LoadOrder)
             /\ node[k] # Absent
             /\ options' = Append(options, node[k])
             /\ UNCHANGED <<proc, faults>>
          \/ /\ Len(options) < Len(LoadOrder)
             /\ node[k] = Absent
             /\ Down
             /\ UNCHANGED faults
          \/ /\ Len(options) < Len(LoadOrder)
             /\ faults < MaxFaults
             /\ faults' = faults + 1
             /\ Down
          \/ /\ Len(options) = Len(LoadOrder)
             /\ Listen \/ Down
             /\ UNCHANGED faults
    /\ UNCHANGED <<zoo, tool, starts, basis>>

Stop ==
    /\ proc # "down"
    /\ Down
    /\ UNCHANGED <<zoo, tool, starts, faults, basis>>

-----------------------------------------------------------------------------

Init ==
    /\ root = FALSE
    /\ node = [k \in Keys |-> Absent]
    /\ tool = [n \in Runs |-> Idle]
    /\ proc = "down" /\ options = <<>>
    /\ starts = 0 /\ faults = 0 /\ basis = 0

Next ==
    \/ \E n \in Runs :
          \/ \E f \in Files : Publish(n, f)
          \/ TestRoot(n) \/ MakeRoot(n) \/ TestNode(n) \/ WriteNode(n) \/ Interrupt(n)
    \/ Start \/ Load \/ Stop

Spec == Init /\ [][Next]_vars

-----------------------------------------------------------------------------
(***************************************************************************)
(* Properties                                                              *)
(***************************************************************************)

\* The value a started server has for a key.
Option(k) == options[CHOOSE i \in DOMAIN LoadOrder : LoadOrder[i] = k]

\* What a reader of the file takes it to say: the first line for the key.
Says(f, k) == First(ItemsFor(f, k))

Short(f) == \A i \in DOMAIN f : f[i].kind # "overlong"

\* A server that was started when the last publication had ended undisturbed
\* runs with exactly what that file says, whatever was published before, and
\* even if it was interrupted, failed half-way or overlapped with another:
\* publishing once more repairs the configuration.
FreshStartUsesPublished ==
    (proc = "running" /\ basis # 0) =>
        LET f == tool[basis].file
        IN Short(f) => \A k \in Keys : ItemsFor(f, k) # {} => Option(k) = ValueOf(basis, Says(f, k))

\* A server that starts while options are being published never mixes a new
\* port with older values: the port is written last and read first.
NewPortMeansNewOptions ==
    proc = "running" =>
        LET n == Option("port")[1]
        IN tool[n].clean => \A k \in DOMAIN Section(tool[n].file) : Option(k)[1] >= n
=============================================================================
