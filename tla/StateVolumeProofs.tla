--------------------------- MODULE StateVolumeProofs ---------------------------
(***************************************************************************)
(* What is on the state volume names one gateway, for every number of      *)
(* processes, starts, images and crashes of the host: theorems about       *)
(* StateVolume.                                                            *)
(***************************************************************************)
EXTENDS StateVolume, FiniteSetTheorems, TLAPS

(***************************************************************************)
(* The inductive invariant                                                 *)
(***************************************************************************)

Values == Nat \cup {None}
Bindings == [runner : Runners \cup {None}, nonce : Values, version : Versions \cup {None}]

\* Hypothesis of the theorems: None is no value of the program.
NoneIsNoValue == None \notin Nat \cup Runners \cup Bindings

Fixed == Paired \cup {Marker, Receipt, Commitment}
Lefts == {PairFiles, Tail(PairFiles), Tail(Tail(PairFiles)), <<>>}
Labels == {"off", "pair", "empty", "post", "stage", "rename", "mark", "publish", "finish", "load",
           "keys", "commitment", "binding", "ready", "running", "acknowledged", "sync"}
Processes == [pc : Labels, then : Labels, attempt : Values, left : Lefts, binding : Bindings]
Entry(n) == IF n \in Fixed THEN Values ELSE Bindings \cup {None}
Directory(d) == d = [n \in Names |-> d[n]] /\ \A n \in Names : d[n] \in Entry(n)

TypeInv ==
    /\ Directory(visible) /\ Directory(durable)
    /\ proc \in [Procs -> Processes]
    /\ named \subseteq Nat \X Runners
    /\ fresh \in Nat /\ crashes \in Nat
    /\ version \in Versions
    /\ loaded \subseteq Nat /\ opened \subseteq Nat \X Nat /\ acked \subseteq Runners

\* Where a process x is: at label l, or about to be when a directory is synced.
Toward(x, L) == x.pc \in L \/ (x.pc = "sync" /\ x.then \in L)
Pairing(x) == Toward(x, {"mark", "finish"}) \/ x.pc \in {"stage", "rename", "publish"}
Holds(x) == Toward(x, KeySteps)
Keyed(x) == Toward(x, KeySteps \cup {"acknowledged"}) \/ x.pc \in {"keys", "running"}
Using(x) == Toward(x, {"ready", "acknowledged"}) \/ x.pc = "running"

\* A binding is of runner r, or asks with a nonce that was answered with r.
Safe(b, r) == b.runner = r \/ (b.runner = None /\ <<b.nonce, r>> \in named)

\* As long as the host does not crash: before a runner is bound every process
\* asks with the same pending request, afterwards all mean the bound runner.
Usable(b) ==
    crashes = 0 =>
       IF Has(Bound) THEN Safe(b, visible[Bound].runner)
       ELSE b = visible[Registration] /\ Current(b)

Rest(l) == {l[i] : i \in DOMAIN l}
All(d, S, a) == \A n \in S : d[n] = a

\* What is true of a process x at its label.
Fits(x) ==
    /\ x.pc = "sync" => x.then \in {"mark", "finish", "acknowledged"} \cup KeySteps
    /\ x.pc = "post" => code \in used \/ All(visible, Names, None)
    /\ Pairing(x) => code \in used /\ x.attempt \in Nat
    /\ x.pc = "stage" => x.left = PairFiles /\ All(visible, Paired \cup {Marker}, None)
    /\ x.pc = "rename" =>
          /\ x.left # <<>> /\ visible[Marker] = None
          /\ \A n \in Paired : visible[n] = IF n \in Rest(x.left) THEN None ELSE x.attempt
    /\ Toward(x, {"mark"}) \/ x.pc = "publish" =>
          visible[Marker] = None /\ All(visible, Paired, x.attempt)
    /\ x.pc \in {"mark", "publish"} => All(durable, Paired, x.attempt)
    /\ Toward(x, {"finish"}) => visible[Marker] = x.attempt
    /\ Keyed(x) => Has(Marker)
    /\ Toward(x, {"commitment"}) => Has(Receipt) /\ ~Has(Commitment) /\ opened = {}
    /\ x.pc = "commitment" => durable[Receipt] = visible[Receipt]
    /\ Toward(x, {"ready"}) => Has(Commitment)
    /\ Toward(x, {"acknowledged"}) => Has(Bound)
    /\ Using(x) => x.binding.nonce \in Nat /\ Usable(x.binding)
FitInv == \A p \in Procs : Fits(proc[p])

\* One process pairs at a time, and one is inside OpenKeys.
AloneInv ==
    \A p, q \in Procs : p # q => /\ ~(Pairing(proc[p]) /\ Pairing(proc[q]))
                                 /\ ~(Holds(proc[p]) /\ Holds(proc[q]))

\* Names that are never given twice are durable with what they show, or not
\* yet; the marker follows its three files, the second key the first.
DiskInv ==
    /\ \A n \in Fixed : durable[n] \in {None, visible[n]}
    /\ Has(Marker) => All(durable, Paired, visible[Marker]) /\ All(visible, Paired, visible[Marker])
    /\ Has(Commitment) => Has(Receipt) /\ durable[Receipt] = visible[Receipt]

\* What a process has used stays on the volume: the three files, the receipt
\* key, and no other commitment key.
UsedInv ==
    /\ \A x \in loaded : All(durable, Paired, x)
    /\ \A x \in opened : durable[Receipt] = x[1] /\ visible[Commitment] \in {x[2], None}
    /\ \A x, y \in opened : x = y

RunnerInv ==
    /\ \A k, l \in named : k[1] = l[1] => k = l
    /\ \A d \in {visible, durable} : d[Bound] # None => d[Bound].runner \in Runners /\ d[Bound].nonce \in Nat
    /\ crashes = 0 =>
          IF Has(Bound)
          THEN /\ acked \subseteq {visible[Bound].runner}
               /\ Has(Registration) => Safe(visible[Registration], visible[Bound].runner)
          ELSE acked = {} /\ (Has(Registration) => visible[Registration].runner = None)

Inv == TypeInv /\ FitInv /\ AloneInv /\ DiskInv /\ UsedInv /\ RunnerInv

-----------------------------------------------------------------------------
(* Names, directories and records *)

LEMMA NameFacts ==
    /\ Paired = {"identity.key", "secret.bin", "pins.json"}
    /\ Marker \notin Paired /\ {Receipt, Commitment, Registration, Bound} \cap (Paired \cup {Marker}) = {}
    /\ Receipt \notin {Commitment, Registration, Bound}
    /\ Commitment \notin {Registration, Bound} /\ Registration # Bound
    /\ {Registration, Bound} \cap Fixed = {} /\ Fixed \subseteq Names
    /\ Names = Fixed \cup {Registration, Bound} /\ Fixed = Paired \cup {Marker, Receipt, Commitment}
<1>1. Paired = {"identity.key", "secret.bin", "pins.json"}
  <2>1. DOMAIN PairFiles = {1, 2, 3}
    BY DEF PairFiles
  <2> QED
    BY <2>1 DEF Paired, PairFiles
<1> QED
  BY <1>1 DEF Marker, Receipt, Commitment, Registration, Bound, Fixed, Names, KeyFiles

LEMMA LeftFacts ==
    /\ PairFiles \in Lefts /\ <<>> \in Lefts /\ Rest(PairFiles) = Paired /\ PairFiles # <<>>
    /\ \A l \in Lefts : l # <<>> =>
          /\ Tail(l) \in Lefts /\ l[1] \in Paired /\ l[1] \in Rest(l)
          /\ Rest(Tail(l)) = Rest(l) \ {l[1]}
          /\ Tail(l) = <<>> => Rest(l) = {l[1]}
<1> DEFINE l3 == <<"identity.key", "secret.bin", "pins.json">>
           l2 == <<"secret.bin", "pins.json">>
           l1 == <<"pins.json">>
<1>1. PairFiles = l3 /\ Tail(l3) = l2 /\ Tail(l2) = l1 /\ Tail(l1) = <<>>
  BY DEF PairFiles
<1>2. Lefts = {l3, l2, l1, <<>>}
  BY <1>1 DEF Lefts
<1>3. /\ Rest(l3) = {"identity.key", "secret.bin", "pins.json"}
      /\ Rest(l2) = {"secret.bin", "pins.json"} /\ Rest(l1) = {"pins.json"} /\ Rest(<<>>) = {}
  <2>1. DOMAIN l3 = {1, 2, 3} /\ DOMAIN l2 = {1, 2} /\ DOMAIN l1 = {1} /\ DOMAIN <<>> = {}
    OBVIOUS
  <2> QED
    BY <2>1 DEF Rest
<1>4. l3[1] = "identity.key" /\ l2[1] = "secret.bin" /\ l1[1] = "pins.json" /\ l3 # <<>>
  OBVIOUS
<1> QED
  BY <1>1, <1>2, <1>3, <1>4, NameFacts

LEMMA NoneFacts ==
    ASSUME NoneIsNoValue
    PROVE  /\ None \notin Nat /\ None \notin Runners /\ None \notin Bindings
           /\ NoBinding \in Bindings /\ ~Current(NoBinding)
BY DEF NoneIsNoValue, NoBinding, Bindings, Values, Current

\* One entry of a directory is written.
Put(d, e, n, w) == e = [d EXCEPT ![n] = w]

LEMMA PutEntry ==
    ASSUME NEW d, NEW e, Directory(d), NEW n \in Names, NEW w \in Entry(n), Put(d, e, n, w)
    PROVE  /\ Directory(e) /\ e[n] = w
           /\ \A m \in Names : m # n => e[m] = d[m]
<1>1. e = [m \in Names |-> IF m = n THEN w ELSE d[m]]
  BY DEF Directory, Put
<1> QED
  BY <1>1 DEF Directory

LEMMA OffFits ==
    /\ Off \in Processes /\ Fits(Off) /\ ~Pairing(Off) /\ ~Holds(Off)
    /\ \A x \in Processes : x.pc = "off" => Fits(x) /\ ~Pairing(x) /\ ~Holds(x)
<1>1. Off \in Processes /\ Off.pc = "off"
  BY LeftFacts DEF Off, Processes, Labels, Values, NoBinding, Bindings
<1>2. \A x \in Processes : x.pc = "off" => Fits(x) /\ ~Pairing(x) /\ ~Holds(x)
  BY DEF Fits, Pairing, Holds, Keyed, Using, Toward, KeySteps
<1> QED
  BY <1>1, <1>2

LEMMA ProcessFields ==
    ASSUME Inv, NEW p \in Procs
    PROVE  /\ proc[p] \in Processes /\ Fits(proc[p])
           /\ proc[p].attempt \in Values /\ proc[p].left \in Lefts /\ proc[p].binding \in Bindings
           /\ proc[p].pc \in Labels /\ proc[p].then \in Labels
BY DEF Inv, TypeInv, FitInv, Processes

-----------------------------------------------------------------------------
(* One process moves on *)

LEMMA Moves ==
    ASSUME Inv, NEW p \in Procs, NEW x \in Processes, proc' = [proc EXCEPT ![p] = x],
           Pairing(x) => Pairing(proc[p]) \/ \A q \in Procs \ {p} : ~Pairing(proc[q]),
           Holds(x) => Holds(proc[p]) \/ \A q \in Procs \ {p} : ~Holds(proc[q])
    PROVE  /\ proc' \in [Procs -> Processes] /\ proc'[p] = x
           /\ \A q \in Procs \ {p} : proc'[q] = proc[q]
           /\ AloneInv'
<1>1. /\ proc' \in [Procs -> Processes] /\ proc'[p] = x
      /\ \A q \in Procs \ {p} : proc'[q] = proc[q]
  BY DEF Inv, TypeInv
<1>2. \A q, u \in Procs : q # u =>
         /\ ~(Pairing(proc'[q]) /\ Pairing(proc'[u])) /\ ~(Holds(proc'[q]) /\ Holds(proc'[u]))
  <2>1. \A q, u \in Procs : q # u =>
           /\ ~(Pairing(proc[q]) /\ Pairing(proc[u])) /\ ~(Holds(proc[q]) /\ Holds(proc[u]))
    BY DEF Inv, AloneInv
  <2> QED
    BY <1>1, <2>1
<1>3. AloneInv'
  BY <1>2 DEF AloneInv, Pairing, Holds, Toward
<1> QED
  BY <1>1, <1>3

Tables == <<visible, durable, code, version, used, named, loaded, opened, acked, crashes>>

LEMMA SameFits ==
    ASSUME UNCHANGED <<visible, durable, code, version, used, named, opened, crashes>>,
           NEW x, Fits(x)
    PROVE  Fits(x)'
BY DEF Fits, Usable, Safe, Current, Has, All, Pairing, Holds, Keyed, Using, Toward

LEMMA LocalStep ==
    ASSUME Inv, UNCHANGED Tables, fresh' \in Nat,
           NEW p \in Procs, NEW x \in Processes, proc' = [proc EXCEPT ![p] = x], Fits(x),
           Pairing(x) => Pairing(proc[p]) \/ \A q \in Procs \ {p} : ~Pairing(proc[q]),
           Holds(x) => Holds(proc[p]) \/ \A q \in Procs \ {p} : ~Holds(proc[q])
    PROVE  Inv'
<1>1. /\ proc' \in [Procs -> Processes] /\ proc'[p] = x
      /\ \A q \in Procs \ {p} : proc'[q] = proc[q]
      /\ AloneInv'
  BY Moves
<1>2. FitInv'
  <2>1. Fits(x)' /\ \A q \in Procs \ {p} : Fits(proc[q])
    BY SameFits DEF Tables, Inv, FitInv
  <2>2. ASSUME NEW q \in Procs
        PROVE  Fits(proc[q])'
    <3>1. PICK y : y = proc'[q] /\ Fits(y)
      BY <1>1, <2>1
    <3>2. Fits(y)'
      BY <3>1, SameFits DEF Tables
    <3> QED
      BY <3>1, <3>2 DEF Fits, Pairing, Holds, Keyed, Using, Toward
  <2> QED
    BY <2>2 DEF FitInv
<1>3. TypeInv' /\ DiskInv' /\ UsedInv' /\ RunnerInv'
  BY <1>1 DEF Tables, Inv, TypeInv, DiskInv, UsedInv, RunnerInv, Safe, Has, All
<1> QED
  BY <1>1, <1>2, <1>3 DEF Inv

LEMMA FailStep ==
    ASSUME Inv, UNCHANGED Tables, fresh' \in Nat, NEW p \in Procs, Fail(p)
    PROVE  Inv'
BY OffFits, LocalStep DEF Fail

\* The step of process p to x, when the tables change: what is left to show.
LEMMA Assemble ==
    ASSUME Inv, NEW p \in Procs, NEW x \in Processes, proc' = [proc EXCEPT ![p] = x],
           Pairing(x) => Pairing(proc[p]) \/ \A q \in Procs \ {p} : ~Pairing(proc[q]),
           Holds(x) => Holds(proc[p]) \/ \A q \in Procs \ {p} : ~Holds(proc[q]),
           Fits(x)',
           \A q \in Procs \ {p} : \A y \in Processes : y = proc[q] => Fits(y)'
    PROVE  /\ proc' \in [Procs -> Processes] /\ proc'[p] = x
           /\ FitInv' /\ AloneInv'
<1>1. /\ proc' \in [Procs -> Processes] /\ proc'[p] = x
      /\ \A q \in Procs \ {p} : proc'[q] = proc[q]
      /\ AloneInv'
  BY Moves
<1>2. ASSUME NEW q \in Procs
      PROVE  Fits(proc[q])'
  <2>1. PICK y \in Processes : y = proc'[q]
    BY <1>1
  <2>2. Fits(y)'
    BY <1>1, <2>1
  <2> QED
    BY <2>1, <2>2 DEF Fits, Pairing, Holds, Keyed, Using, Toward
<1> QED
  BY <1>1, <1>2 DEF FitInv

-----------------------------------------------------------------------------
(* Steps that leave names and keys as they are *)

LEMMA StartStep ==
    ASSUME Inv, NEW p \in Procs, Start(p)
    PROVE  Inv'
<1> DEFINE l == IF code # None THEN "pair" ELSE "load"
           x == [proc[p] EXCEPT !.pc = l]
<1>1. l \in {"pair", "load"} /\ l \in Labels
  BY DEF Labels
<1>2. x \in Processes /\ x.pc \in {"pair", "load"}
  BY <1>1, ProcessFields DEF Processes
<1>3. Fits(x) /\ ~Pairing(x) /\ ~Holds(x)
  BY <1>2 DEF Fits, Pairing, Holds, Keyed, Using, Toward, KeySteps
<1>4. proc' = [proc EXCEPT ![p] = x] /\ UNCHANGED Tables /\ fresh' \in Nat
  BY DEF Start, Goto, Entries, Tables, Inv, TypeInv
<1> HIDE DEF x
<1> QED
  BY <1>2, <1>3, <1>4, LocalStep

LEMMA PreparingStep ==
    ASSUME Inv, NEW p \in Procs, Clean(p) \/ RequireEmpty(p)
    PROVE  Inv'
<1>1. UNCHANGED Tables /\ fresh' \in Nat
  BY DEF Clean, RequireEmpty, Entries, World, Tables, Inv, TypeInv
<1>2. CASE Fail(p)
  BY <1>1, <1>2, FailStep
<1>3. CASE Goto(p, "empty")
  <2> DEFINE x == [proc[p] EXCEPT !.pc = "empty"]
  <2>1. x \in Processes /\ x.pc = "empty" /\ proc' = [proc EXCEPT ![p] = x]
    BY <1>3, ProcessFields DEF Processes, Labels, Goto
  <2>2. Fits(x) /\ ~Pairing(x) /\ ~Holds(x)
    BY <2>1 DEF Fits, Pairing, Holds, Keyed, Using, Toward, KeySteps
  <2> HIDE DEF x
  <2> QED
    BY <1>1, <2>1, <2>2, LocalStep
<1>4. CASE Goto(p, "post") /\ All(visible, Names, None)
  <2> DEFINE x == [proc[p] EXCEPT !.pc = "post"]
  <2>1. x \in Processes /\ x.pc = "post" /\ proc' = [proc EXCEPT ![p] = x]
    BY <1>4, ProcessFields DEF Processes, Labels, Goto
  <2>2. Fits(x) /\ ~Pairing(x) /\ ~Holds(x)
    BY <1>4, <2>1 DEF Fits, Pairing, Holds, Keyed, Using, Toward, KeySteps
  <2> HIDE DEF x
  <2> QED
    BY <1>1, <2>1, <2>2, LocalStep
<1> QED
  BY <1>2, <1>3, <1>4 DEF Clean, RequireEmpty, Has, All

LEMMA StagingStep ==
    ASSUME Inv, NEW p \in Procs, Stage(p) \/ Mark(p)
    PROVE  Inv'
<1>1. UNCHANGED Tables /\ fresh' \in Nat
  BY DEF Stage, Mark, World, Tables, Inv, TypeInv
<1>2. CASE Fail(p)
  BY <1>1, <1>2, FailStep
<1>3. CASE At(p, "stage") /\ Goto(p, "rename")
  <2> DEFINE x == [proc[p] EXCEPT !.pc = "rename"]
  <2>1. /\ x \in Processes /\ x.pc = "rename" /\ proc' = [proc EXCEPT ![p] = x]
        /\ x.left = proc[p].left /\ x.attempt = proc[p].attempt
    BY <1>3, ProcessFields DEF Processes, Labels, Goto
  <2>2. Pairing(proc[p]) /\ Pairing(x) /\ ~Holds(x)
    BY <1>3, <2>1 DEF Pairing, Holds, Toward, KeySteps, At
  <2>3. Fits(x)
    BY <1>3, <2>1, <2>2, ProcessFields, LeftFacts
       DEF Fits, Keyed, Using, Toward, KeySteps, At, All
  <2> HIDE DEF x
  <2> QED
    BY <1>1, <2>1, <2>2, <2>3, LocalStep
<1>4. CASE At(p, "mark") /\ Goto(p, "publish")
  <2> DEFINE x == [proc[p] EXCEPT !.pc = "publish"]
  <2>1. /\ x \in Processes /\ x.pc = "publish" /\ proc' = [proc EXCEPT ![p] = x]
        /\ x.attempt = proc[p].attempt
    BY <1>4, ProcessFields DEF Processes, Labels, Goto
  <2>2. Pairing(proc[p]) /\ Pairing(x) /\ ~Holds(x)
    BY <1>4, <2>1 DEF Pairing, Holds, Toward, KeySteps, At
  <2>3. Fits(x)
    BY <1>4, <2>1, <2>2, ProcessFields DEF Fits, Keyed, Using, Toward, KeySteps, At
  <2> HIDE DEF x
  <2> QED
    BY <1>1, <2>1, <2>2, <2>3, LocalStep
<1> QED
  BY <1>2, <1>3, <1>4 DEF Stage, Mark

LEMMA AsideStep ==
    ASSUME Inv, Approve \/ \E p \in Procs : Kill(p)
    PROVE  Inv'
<1>1. UNCHANGED Tables /\ fresh' \in Nat
  BY DEF Approve, Kill, Entries, World, Tables, Inv, TypeInv
<1>2. CASE \E p \in Procs : Fail(p)
  BY <1>1, <1>2, FailStep
<1>3. CASE UNCHANGED proc
  <2>1. ASSUME NEW q \in Procs
        PROVE  Fits(proc[q])'
    <3>1. PICK y : y = proc[q] /\ Fits(y)
      BY DEF Inv, FitInv
    <3>2. Fits(y)'
      BY <1>1, <3>1, SameFits DEF Tables
    <3> QED
      BY <1>3, <3>1, <3>2 DEF Fits, Pairing, Holds, Keyed, Using, Toward
  <2>2. FitInv'
    BY <2>1 DEF FitInv
  <2> QED
    BY <1>1, <1>3, <2>2
       DEF Tables, Inv, TypeInv, AloneInv, DiskInv, UsedInv, RunnerInv, Safe, Has, All, Pairing, Holds, Toward
<1> QED
  BY <1>2, <1>3 DEF Approve, Kill

-----------------------------------------------------------------------------
(* Pairing, and the directory synced *)

LEMMA PostStep ==
    ASSUME Inv, NEW p \in Procs, Post(p)
    PROVE  Inv'
<1>1. CASE UNCHANGED <<used, fresh>>
  <2>1. Fail(p) /\ UNCHANGED Tables /\ fresh' \in Nat
    BY <1>1 DEF Post, Entries, Tables, Inv, TypeInv
  <2> QED
    BY <2>1, FailStep
<1>2. CASE code \notin used /\ used' = used \cup {code} /\ fresh' = fresh + 1
  <2>0. PICK x : x = [proc[p] EXCEPT !.pc = "stage", !.attempt = fresh + 1, !.left = PairFiles]
    OBVIOUS
  <2>1. /\ UNCHANGED <<visible, durable, code, version, named, loaded, opened, acked, crashes>>
        /\ At(p, "post") /\ fresh' \in Nat /\ fresh + 1 \in Nat
    BY <1>2 DEF Post, Entries, Inv, TypeInv
  <2>2. /\ x \in Processes /\ x.pc = "stage" /\ x.attempt = fresh + 1 /\ x.left = PairFiles
    BY <2>0, <2>1, ProcessFields, LeftFacts DEF Processes, Labels, Values
  <2>3. \A q \in Procs : ~Pairing(proc[q])
    BY <1>2 DEF Inv, FitInv, Fits
  <2>4. All(visible, Names, None) /\ ~Holds(x) /\ ~Holds(Off) /\ ~Pairing(Off)
    BY <1>2, <2>1, <2>2, ProcessFields, OffFits DEF Fits, At, Holds, Toward, KeySteps
  <2>5. ASSUME NEW y \in Processes, Fits(y)
        PROVE  Fits(y)'
    BY <1>2, <2>1, <2>5 DEF Fits, Usable, Safe, Current, Has, All, Pairing, Holds, Keyed, Using, Toward
  <2>6. Fits(x)'
    BY <1>2, <2>1, <2>2, <2>4, NameFacts
       DEF Fits, Usable, Safe, Current, Has, All, Pairing, Holds, Keyed, Using, Toward, KeySteps
  <2>7. \A q \in Procs : \A y \in Processes : y = proc[q] => Fits(y)'
    BY <2>5 DEF Inv, FitInv
  <2>8. Fits(Off)'
    BY <2>5, OffFits
  <2>9. proc' = [proc EXCEPT ![p] = x] \/ proc' = [proc EXCEPT ![p] = Off]
    BY <1>2, <2>0, ProcessFields DEF Post, Fail
  <2>10. proc' \in [Procs -> Processes] /\ FitInv' /\ AloneInv'
    BY <2>2, <2>3, <2>4, <2>6, <2>7, <2>8, <2>9, OffFits, Assemble
  <2> QED
    BY <2>1, <2>10 DEF Inv, TypeInv, DiskInv, UsedInv, RunnerInv, Safe, Has, All
<1> QED
  BY <1>1, <1>2 DEF Post

\* A name of the pairing appears: what the other processes rely on stays.
LEMMA NameAppears ==
    ASSUME NoneIsNoValue, Inv, NEW p \in Procs, Pairing(proc[p]),
           NEW n \in Paired \cup {Marker}, NEW w \in Nat, Put(visible, visible', n, w),
           UNCHANGED <<durable, code, version, used, named, opened, crashes>>,
           NEW q \in Procs \ {p}, NEW y \in Processes, y = proc[q]
    PROVE  Fits(y)'
<1>1. Fits(y) /\ ~Pairing(y) /\ code \in used
  BY DEF Inv, FitInv, AloneInv, Fits
<1>2. /\ visible'[Receipt] = visible[Receipt] /\ visible'[Commitment] = visible[Commitment]
      /\ visible'[Registration] = visible[Registration] /\ visible'[Bound] = visible[Bound]
      /\ visible'[Marker] \in {visible[Marker], w}
  <2>1. n \in Names /\ w \in Entry(n) /\ Directory(visible)
    BY NameFacts DEF Entry, Values, Inv, TypeInv
  <2>2. visible'[n] = w /\ \A m \in Names : m # n => visible'[m] = visible[m]
    BY <2>1, PutEntry
  <2> QED
    BY <2>2, NameFacts
<1> QED
  BY <1>1, <1>2, NoneFacts
     DEF Fits, Usable, Safe, Current, Has, All, Pairing, Holds, Keyed, Using, Toward

LEMMA RenameStep ==
    ASSUME NoneIsNoValue, Inv, NEW p \in Procs, Rename(p)
    PROVE  Inv'
<1>1. /\ At(p, "rename") /\ UNCHANGED <<durable, World>>
  BY DEF Rename
<1>2. CASE Fail(p) /\ UNCHANGED <<visible, staged>>
  BY <1>1, <1>2, FailStep DEF World, Tables, Inv, TypeInv
<1>3. CASE InStage(proc[p].left[1])
  <2>0. PICK a, n, r, x :
           /\ a = proc[p].attempt /\ n = proc[p].left[1]
           /\ r = [proc[p] EXCEPT !.left = Tail(@)] /\ x = IF r.left = <<>> THEN ThenMark(r) ELSE r
    OBVIOUS
  <2>1. /\ Pairing(proc[p]) /\ a \in Nat /\ code \in used
        /\ proc[p].left \in Lefts /\ proc[p].left # <<>> /\ visible[Marker] = None
        /\ \A m \in Paired : visible[m] = IF m \in Rest(proc[p].left) THEN None ELSE a
    BY <1>1, <2>0, ProcessFields DEF At, Pairing, Fits
  <2>2. /\ n \in Paired /\ n \in Rest(proc[p].left) /\ Tail(proc[p].left) \in Lefts
        /\ Rest(Tail(proc[p].left)) = Rest(proc[p].left) \ {n}
        /\ Tail(proc[p].left) = <<>> => Rest(proc[p].left) = {n}
    BY <2>0, <2>1, LeftFacts
  <2>3. /\ x \in Processes /\ x.attempt = a
        /\ x.left = Tail(proc[p].left)
        /\ x.left = <<>> => x.pc = "sync" /\ x.then = "mark"
        /\ x.left # <<>> => x.pc = "rename"
    BY <1>1, <2>0, <2>2, ProcessFields DEF Processes, Labels, ThenMark, At
  <2>4. Put(visible, visible', n, a) /\ proc' = [proc EXCEPT ![p] = x]
    BY <1>3, <2>0 DEF Rename, Put
  <2>5. /\ n \in Names /\ a \in Entry(n) /\ n # Marker /\ a # None /\ visible[n] = None
    BY <2>1, <2>2, NameFacts, NoneFacts DEF Entry, Fixed, Values
  <2>6. /\ Directory(visible') /\ visible'[n] = a
        /\ \A m \in Names : m # n => visible'[m] = visible[m]
    BY <2>4, <2>5, PutEntry DEF Inv, TypeInv
  <2>7. Pairing(x) /\ ~Holds(x)
    BY <2>3 DEF Pairing, Holds, Toward, KeySteps
  <2>8. visible'[Marker] = None
        /\ \A m \in Paired : visible'[m] = IF m \in Rest(x.left) THEN None ELSE a
    BY <2>1, <2>2, <2>3, <2>5, <2>6, NameFacts
  <2>9. x.left = <<>> => \A m \in Paired : visible'[m] = a
    BY <2>8 DEF Rest
  <2>10. Fits(x)'
    BY <1>1, <2>1, <2>3, <2>7, <2>8, <2>9
       DEF World, Fits, Usable, Safe, Current, Has, All, Pairing, Holds, Keyed, Using, Toward, KeySteps
  <2>11. \A q \in Procs \ {p} : \A y \in Processes : y = proc[q] => Fits(y)'
    BY <1>1, <2>1, <2>2, <2>4, NameAppears DEF World
  <2>12. proc' \in [Procs -> Processes] /\ FitInv' /\ AloneInv'
    BY <2>1, <2>3, <2>4, <2>7, <2>10, <2>11, Assemble
  <2>13. DiskInv'
    <3>1. durable' = durable /\ DiskInv
      BY <1>1 DEF Inv
    <3>2. \A m \in Fixed : durable'[m] \in {None, visible'[m]}
      <4>1. \A m \in Fixed : durable[m] \in {None, visible[m]} /\ m \in Names
        BY <3>1, NameFacts DEF DiskInv
      <4> QED
        BY <2>5, <2>6, <3>1, <4>1
    <3>3. ~Has(Marker)'
      BY <2>8 DEF Has
    <3>4. visible'[Commitment] = visible[Commitment] /\ visible'[Receipt] = visible[Receipt]
      BY <2>2, <2>6, NameFacts
    <3>5. Has(Commitment)' => Has(Receipt)' /\ durable'[Receipt] = visible'[Receipt]
      BY <3>1, <3>4 DEF DiskInv, Has
    <3> QED
      BY <3>2, <3>3, <3>5 DEF DiskInv
  <2>14. UsedInv' /\ RunnerInv'
    BY <1>1, <2>2, <2>6, NameFacts, ZenonT(40) DEF World, Inv, UsedInv, RunnerInv, Has, All, Safe
  <2>15. TypeInv'
    BY <1>1, <2>6, <2>12 DEF World, Inv, TypeInv
  <2> QED
    BY <2>12, <2>13, <2>14, <2>15 DEF Inv
<1> QED
  BY <1>2, <1>3 DEF Rename

LEMMA PublishStep ==
    ASSUME NoneIsNoValue, Inv, NEW p \in Procs, Publish(p)
    PROVE  Inv'
<1>1. /\ At(p, "publish") /\ UNCHANGED <<durable, World>>
  BY DEF Publish
<1>2. CASE Fail(p) /\ UNCHANGED <<visible, staged>>
  BY <1>1, <1>2, FailStep DEF World, Tables, Inv, TypeInv
<1>3. CASE InStage(Marker)
  <2>0. PICK a, x : a = proc[p].attempt /\ x = [proc[p] EXCEPT !.pc = "sync", !.then = "finish"]
    OBVIOUS
  <2>1. /\ Pairing(proc[p]) /\ a \in Nat /\ code \in used
        /\ visible[Marker] = None /\ All(visible, Paired, a) /\ All(durable, Paired, a)
    BY <1>1, <2>0, ProcessFields DEF At, Pairing, Fits
  <2>2. /\ x \in Processes /\ x.attempt = a /\ x.pc = "sync" /\ x.then = "finish"
    BY <2>0, ProcessFields DEF Processes, Labels
  <2>3. Put(visible, visible', Marker, a) /\ proc' = [proc EXCEPT ![p] = x]
    BY <1>3, <2>0, ProcessFields DEF Publish, Put
  <2>4. Marker \in Names /\ a \in Entry(Marker) /\ a # None
    BY <2>1, NameFacts, NoneFacts DEF Entry, Fixed, Values
  <2>5. /\ Directory(visible') /\ visible'[Marker] = a
        /\ \A m \in Names : m # Marker => visible'[m] = visible[m]
    BY <2>3, <2>4, PutEntry DEF Inv, TypeInv
  <2>6. Pairing(x) /\ ~Holds(x)
    BY <2>2 DEF Pairing, Holds, Toward, KeySteps
  <2>7. Fits(x)'
    BY <1>1, <2>1, <2>2, <2>5, <2>6
       DEF World, Fits, Usable, Safe, Current, Has, All, Pairing, Holds, Keyed, Using, Toward, KeySteps
  <2>8. \A q \in Procs \ {p} : \A y \in Processes : y = proc[q] => Fits(y)'
    BY <1>1, <2>1, <2>3, NameAppears DEF World
  <2>9. proc' \in [Procs -> Processes] /\ FitInv' /\ AloneInv'
    BY <2>1, <2>2, <2>3, <2>6, <2>7, <2>8, Assemble
  <2>10. DiskInv'
    BY <1>1, <2>1, <2>4, <2>5, NameFacts, ZenonT(40) DEF World, Inv, DiskInv, Has, All
  <2>11. UsedInv' /\ RunnerInv'
    BY <1>1, <2>5, NameFacts, ZenonT(40) DEF World, Inv, UsedInv, RunnerInv, Has, All, Safe
  <2>12. TypeInv'
    BY <1>1, <2>5, <2>9 DEF World, Inv, TypeInv
  <2> QED
    BY <2>9, <2>10, <2>11, <2>12 DEF Inv
<1> QED
  BY <1>2, <1>3 DEF Publish

\* FinishPair and Load return the keys that are on the volume.
LEMMA LoadedStep ==
    ASSUME NoneIsNoValue, Inv, NEW p \in Procs, FinishPair(p) \/ Load(p)
    PROVE  Inv'
<1>1. /\ UNCHANGED <<visible, durable, code, version, used, named, opened, acked, crashes>>
      /\ fresh' \in Nat
  BY DEF FinishPair, Load, Inv, TypeInv
<1>2. CASE Fail(p) /\ UNCHANGED loaded
  BY <1>1, <1>2, FailStep DEF Tables
<1>3. CASE Goto(p, "keys")
  <2>0. PICK x : x = [proc[p] EXCEPT !.pc = "keys"]
    OBVIOUS
  <2>1. /\ x \in Processes /\ x.pc = "keys" /\ proc' = [proc EXCEPT ![p] = x]
    BY <1>3, <2>0, ProcessFields DEF Processes, Labels, Goto
  <2>2. /\ Has(Marker) /\ loaded' = loaded \cup {visible[Marker]}
    <3>1. CASE FinishPair(p)
      <4>1. Toward(proc[p], {"finish"}) /\ Pairing(proc[p]) /\ proc[p].pc # "off"
        BY <3>1 DEF FinishPair, At, Toward, Pairing
      <4>2. visible[Marker] = proc[p].attempt /\ proc[p].attempt \in Nat
        BY <4>1, ProcessFields DEF Fits
      <4>3. loaded' = loaded \cup {proc[p].attempt}
        <5>1. ~Fail(p)
          BY <1>3, ProcessFields DEF Fail, Goto, Off, Inv, TypeInv
        <5> QED
          BY <3>1, <5>1 DEF FinishPair
      <4> QED
        BY <4>2, <4>3, NoneFacts DEF Has
    <3>2. CASE Load(p)
      <4>1. ~Fail(p)
        BY <1>3, ProcessFields DEF Fail, Goto, Off, Inv, TypeInv
      <4>2. Has(Marker) /\ loaded' = loaded \cup {visible[n] : n \in Paired}
        BY <3>2, <4>1 DEF Load
      <4>3. All(visible, Paired, visible[Marker])
        BY <4>2 DEF Inv, DiskInv
      <4>4. {visible[n] : n \in Paired} = {visible[Marker]}
        BY <4>3, NameFacts DEF All
      <4> QED
        BY <4>2, <4>4
    <3> QED
      BY <3>1, <3>2
  <2>3. ~Pairing(x) /\ ~Holds(x) /\ Fits(x)
    BY <2>1, <2>2 DEF Fits, Pairing, Holds, Keyed, Using, Toward, KeySteps
  <2>4. \A y : Fits(y) => Fits(y)'
    BY <1>1, SameFits
  <2>5. \A q \in Procs \ {p} : \A y \in Processes : y = proc[q] => Fits(y)'
    BY <2>4 DEF Inv, FitInv
  <2>6. proc' \in [Procs -> Processes] /\ FitInv' /\ AloneInv'
    BY <2>1, <2>3, <2>4, <2>5, Assemble
  <2>7. visible[Marker] \in Nat
    BY <2>2, NameFacts DEF Inv, TypeInv, Directory, Entry, Values, Has
  <2>8. UsedInv'
    <3>1. All(durable, Paired, visible[Marker])
      BY <2>2 DEF Inv, DiskInv
    <3> QED
      BY <1>1, <2>2, <3>1 DEF Inv, UsedInv, All
  <2>9. TypeInv' /\ DiskInv' /\ RunnerInv'
    BY <1>1, <2>2, <2>6, <2>7 DEF Inv, TypeInv, DiskInv, RunnerInv, Has, All, Safe
  <2> QED
    BY <2>6, <2>8, <2>9 DEF Inv
<1> QED
  BY <1>2, <1>3 DEF FinishPair, Load

LEMMA SyncStep ==
    ASSUME NoneIsNoValue, Inv, NEW p \in Procs, Sync(p)
    PROVE  Inv'
<1>0. PICK x : x = [proc[p] EXCEPT !.pc = proc[p].then]
  OBVIOUS
<1>1. /\ UNCHANGED <<visible, code, version, used, named, fresh, loaded, opened, acked, crashes>>
      /\ durable' = visible /\ proc' = [proc EXCEPT ![p] = x] /\ proc[p].pc = "sync"
  BY <1>0, ProcessFields DEF Sync, World, Goto, At, Processes
<1>2. proc[p].then \in {"mark", "finish", "acknowledged"} \cup KeySteps
  BY <1>1, ProcessFields DEF Fits
<1>3. /\ x \in Processes /\ x.pc = proc[p].then /\ x.attempt = proc[p].attempt
      /\ x.binding = proc[p].binding /\ x.left = proc[p].left
  BY <1>0, ProcessFields DEF Processes
<1>4. (Pairing(x) => Pairing(proc[p])) /\ (Holds(x) => Holds(proc[p]))
  BY <1>1, <1>2, <1>3 DEF Pairing, Holds, Toward, KeySteps
<1>5. \A n \in Fixed : durable[n] # None => durable[n] = visible[n]
  BY DEF Inv, DiskInv
<1>6. ASSUME NEW y, Fits(y)
      PROVE  Fits(y)'
  BY <1>1, <1>6 DEF Fits, Usable, Safe, Current, Has, All, Pairing, Holds, Keyed, Using, Toward
<1>7. Fits(x)'
  <2>1. Fits(proc[p])
    BY ProcessFields
  <2> QED
    BY <1>1, <1>2, <1>3, <2>1
       DEF Fits, Usable, Safe, Current, Has, All, Pairing, Holds, Keyed, Using, Toward, KeySteps
<1>8. \A q \in Procs \ {p} : \A y \in Processes : y = proc[q] => Fits(y)'
  BY <1>6 DEF Inv, FitInv
<1>9. proc' \in [Procs -> Processes] /\ FitInv' /\ AloneInv'
  BY <1>1, <1>3, <1>4, <1>7, <1>8, Assemble
<1>10. TypeInv' /\ DiskInv' /\ RunnerInv'
  BY <1>1, <1>9, NameFacts DEF Inv, TypeInv, DiskInv, RunnerInv, Has, All, Safe
<1>11. UsedInv'
  <2>1. \A x1 \in loaded : All(durable', Paired, x1)
    BY <1>1, NoneFacts, NameFacts DEF Inv, TypeInv, UsedInv, DiskInv, All
  <2>2. \A x1 \in opened : durable'[Receipt] = x1[1]
    BY <1>1, NoneFacts, NameFacts DEF Inv, TypeInv, UsedInv, DiskInv
  <2> QED
    BY <1>1, <2>1, <2>2 DEF Inv, UsedInv, All
<1> QED
  BY <1>9, <1>10, <1>11 DEF Inv

-----------------------------------------------------------------------------
(* The world *)

\* When no process runs, only what is on the volume matters.
LEMMA AllOff ==
    ASSUME \A q \in Procs : proc'[q] \in Processes /\ proc'[q].pc = "off"
    PROVE  FitInv' /\ AloneInv'
BY DEF FitInv, AloneInv, Fits, Pairing, Holds, Keyed, Using, Toward, KeySteps

LEMMA ConfigureStep ==
    ASSUME Inv, Configure
    PROVE  Inv'
<1>1. /\ UNCHANGED <<visible, durable, proc, used, named, fresh, loaded, opened, acked, crashes>>
      /\ version' \in Versions
  BY DEF Configure, Entries
<1>2. FitInv' /\ AloneInv'
  BY <1>1, AllOff DEF Configure, At, Inv, TypeInv
<1> QED
  BY <1>1, <1>2 DEF Inv, TypeInv, DiskInv, UsedInv, RunnerInv, Safe, Has, All

LEMMA HostCrashStep ==
    ASSUME NoneIsNoValue, Inv, HostCrash
    PROVE  Inv'
<1>1. /\ UNCHANGED <<code, version, used, named, fresh, loaded, opened, acked>>
      /\ crashes' \in Nat /\ crashes' # 0
      /\ durable' = visible' /\ proc' = [q \in Procs |-> Off]
  BY DEF HostCrash, Inv, TypeInv
<1>2. FitInv' /\ AloneInv'
  BY <1>1, AllOff, OffFits DEF Off
<1>3. /\ visible' = [n \in Names |-> visible'[n]]
      /\ \A n \in Names : visible'[n] \in {visible[n], durable[n]}
  BY DEF HostCrash
<1>4. TypeInv'
  BY <1>1, <1>3, OffFits DEF Inv, TypeInv, Directory
<1>5. \A n \in Names : n \in Fixed /\ durable[n] # None => visible'[n] = durable[n] /\ visible[n] = durable[n]
  BY <1>3 DEF Inv, DiskInv
<1>6. \A n \in Fixed : visible'[n] \in {None, visible[n]}
  BY <1>3, NameFacts DEF Inv, DiskInv
<1>7. DiskInv'
  <2>1. Has(Marker)' => visible'[Marker] = visible[Marker] /\ Has(Marker)
    BY <1>6, NameFacts DEF Has
  <2>2. Has(Commitment)' => Has(Commitment)
    BY <1>6, NameFacts DEF Has
  <2>3. Has(Marker)' => All(visible', Paired, visible'[Marker])
    BY <1>5, <2>1, NameFacts DEF Inv, DiskInv, All, Has
  <2>4. Has(Commitment)' => Has(Receipt)'
    BY <1>5, <2>2, NameFacts DEF Inv, DiskInv, Has
  <2> QED
    BY <1>1, <2>1, <2>2, <2>3, <2>4 DEF DiskInv, All, Has
<1>8. UsedInv'
  <2>1. \A x1 \in loaded : All(durable', Paired, x1)
    BY <1>1, <1>5, NoneFacts, NameFacts DEF Inv, TypeInv, UsedInv, All
  <2>2. \A x1 \in opened : durable'[Receipt] = x1[1] /\ visible'[Commitment] \in {x1[2], None}
    BY <1>1, <1>5, <1>6, NoneFacts, NameFacts DEF Inv, TypeInv, UsedInv
  <2> QED
    BY <1>1, <2>1, <2>2 DEF Inv, UsedInv, All
<1>9. RunnerInv'
  <2>1. visible'[Bound] # None => visible'[Bound].runner \in Runners /\ visible'[Bound].nonce \in Nat
    BY <1>3, NameFacts DEF Inv, RunnerInv, Has
  <2> QED
    BY <1>1, <2>1 DEF Inv, RunnerInv
<1> QED
  BY <1>2, <1>4, <1>7, <1>8, <1>9 DEF Inv

-----------------------------------------------------------------------------
(* Verification keys *)

\* A process that holds the keys' lock writes n: what the others rely on stays.
LEMMA KeyAppears ==
    ASSUME NoneIsNoValue, Inv, NEW p \in Procs, Keyed(proc[p]),
           \A q \in Procs \ {p} : ~Holds(proc[q]),
           NEW n \in {Receipt, Commitment}, NEW w \in Nat, Put(visible, visible', n, w),
           UNCHANGED <<durable, code, version, used, named, opened, crashes>>,
           NEW q \in Procs \ {p}, NEW y \in Processes, y = proc[q]
    PROVE  Fits(y)'
<1>1. Fits(y) /\ ~Holds(y) /\ Has(Marker) /\ (y.pc = "post" => code \in used)
  BY NameFacts DEF Inv, FitInv, Fits, All, Has
<1>2. n \in Names /\ w \in Entry(n) /\ Directory(visible)
  BY NameFacts DEF Entry, Values, Inv, TypeInv
<1>3. visible'[n] = w /\ \A m \in Names : m # n => visible'[m] = visible[m]
  <2>1. Put(visible, visible', n, w)
    OBVIOUS
  <2> QED
    BY ONLY <1>2, <2>1, PutEntry
<1>4. \A m \in Paired \cup {Marker, Registration, Bound} : visible'[m] = visible[m]
  BY <1>3, NameFacts
<1> QED
  BY <1>1, <1>4
     DEF Fits, Usable, Safe, Current, Has, All, Pairing, Holds, Keyed, Using, Toward, KeySteps

LEMMA LockedAlone ==
    ASSUME NEW p \in Procs, Locked(p)
    PROVE  \A q \in Procs \ {p} : ~Holds(proc[q])
BY DEF Locked, Holds, Toward, At

LEMMA OpenKeysStep ==
    ASSUME NoneIsNoValue, Inv, NEW p \in Procs, OpenKeys(p)
    PROVE  Inv'
<1>1. /\ At(p, "keys") /\ \A q \in Procs \ {p} : ~Holds(proc[q])
      /\ UNCHANGED <<durable, code, version, used, named, loaded, opened, acked, crashes>>
  BY LockedAlone DEF OpenKeys
<1>2. Keyed(proc[p]) /\ Has(Marker)
  BY <1>1, ProcessFields DEF At, Keyed, Fits
<1>3. CASE Fail(p) /\ UNCHANGED <<visible, fresh>>
  BY <1>1, <1>3, FailStep DEF Tables, Inv, TypeInv
<1>4. CASE Goto(p, "binding") /\ UNCHANGED <<visible, fresh>>
  <2>0. PICK x : x = [proc[p] EXCEPT !.pc = "binding"]
    OBVIOUS
  <2>1. x \in Processes /\ x.pc = "binding" /\ proc' = [proc EXCEPT ![p] = x]
    BY <1>4, <2>0, ProcessFields DEF Processes, Labels, Goto
  <2>2. Fits(x) /\ ~Pairing(x)
    BY <1>2, <2>1 DEF Fits, Pairing, Holds, Keyed, Using, Toward, KeySteps
  <2> QED
    BY <1>1, <1>4, <2>1, <2>2, LocalStep DEF Tables, Inv, TypeInv
<1>5. CASE /\ \A n \in KeyFiles : ~Has(n)
           /\ Store(p, Receipt, fresh + 1, "commitment") /\ fresh' = fresh + 1
  <2>0. PICK w, x : w = fresh + 1 /\ x = [proc[p] EXCEPT !.pc = "sync", !.then = "commitment"]
    OBVIOUS
  <2>1. /\ x \in Processes /\ x.pc = "sync" /\ x.then = "commitment"
        /\ proc' = [proc EXCEPT ![p] = x] /\ Put(visible, visible', Receipt, w)
        /\ w \in Nat /\ fresh' \in Nat
    <3>1. x \in Processes /\ x.pc = "sync" /\ x.then = "commitment"
      BY <2>0, ProcessFields DEF Processes, Labels
    <3>2. proc' = [proc EXCEPT ![p] = x] /\ Put(visible, visible', Receipt, w)
      BY <1>5, <2>0 DEF Store, Put
    <3>3. w \in Nat /\ fresh' \in Nat
      BY <1>5, <2>0 DEF Inv, TypeInv
    <3> QED
      BY <3>1, <3>2, <3>3
  <2>2. Receipt \in Names /\ w \in Entry(Receipt) /\ Directory(visible) /\ w # None
    BY <2>1, NameFacts, NoneFacts DEF Entry, Values, Inv, TypeInv
  <2>3. Directory(visible') /\ visible'[Receipt] = w
        /\ \A m \in Names : m # Receipt => visible'[m] = visible[m]
    BY <2>1, <2>2, PutEntry
  <2>4. visible[Receipt] = None /\ visible[Commitment] = None /\ durable[Receipt] = None
    BY <1>5, NameFacts DEF KeyFiles, Has, Inv, DiskInv
  <2>5. opened = {}
    BY <2>4, NoneFacts DEF Inv, TypeInv, UsedInv
  <2>6. ~Pairing(x)
    BY <2>1 DEF Pairing, Toward
  <2>7. Fits(x)'
    BY <1>1, <1>2, <2>1, <2>2, <2>3, <2>4, <2>5, NameFacts
       DEF Fits, Has, Pairing, Keyed, Using, Toward, KeySteps
  <2>8. \A q \in Procs \ {p} : \A y \in Processes : y = proc[q] => Fits(y)'
    BY <1>1, <1>2, <2>1, KeyAppears
  <2>9. proc' \in [Procs -> Processes] /\ FitInv' /\ AloneInv'
    BY <1>1, <2>1, <2>6, <2>7, <2>8, Assemble
  <2>10. TypeInv'
    BY <1>1, <2>1, <2>3, <2>9 DEF Inv, TypeInv
  <2>11. DiskInv'
    BY <1>1, <1>2, <2>3, <2>4, NameFacts DEF Inv, DiskInv, Has, All
  <2>12. UsedInv' /\ RunnerInv'
    BY <1>1, <2>3, <2>5, NameFacts DEF Inv, UsedInv, RunnerInv, Has, All, Safe
  <2> QED
    BY <2>9, <2>10, <2>11, <2>12 DEF Inv
<1> QED
  BY <1>3, <1>4, <1>5 DEF OpenKeys

LEMMA OpenCommitmentStep ==
    ASSUME NoneIsNoValue, Inv, NEW p \in Procs, OpenCommitment(p)
    PROVE  Inv'
<1>0. PICK w, x : w = fresh + 1 /\ x = [proc[p] EXCEPT !.pc = "sync", !.then = "binding"]
  OBVIOUS
<1>1. /\ At(p, "commitment")
      /\ UNCHANGED <<durable, code, version, used, named, loaded, opened, acked, crashes>>
  BY DEF OpenCommitment
<1>2. /\ Keyed(proc[p]) /\ Holds(proc[p]) /\ Has(Marker) /\ Has(Receipt) /\ ~Has(Commitment)
      /\ opened = {} /\ durable[Receipt] = visible[Receipt]
  BY <1>1, ProcessFields DEF At, Keyed, Holds, Toward, KeySteps, Fits
<1>3. /\ x \in Processes /\ x.pc = "sync" /\ x.then = "binding"
      /\ proc' = [proc EXCEPT ![p] = x] /\ Put(visible, visible', Commitment, w)
      /\ w \in Nat /\ fresh' \in Nat
  <2>1. x \in Processes /\ x.pc = "sync" /\ x.then = "binding"
    BY <1>0, ProcessFields DEF Processes, Labels
  <2>2. proc' = [proc EXCEPT ![p] = x] /\ Put(visible, visible', Commitment, w)
    BY <1>0 DEF OpenCommitment, Store, Put
  <2>3. w \in Nat /\ fresh' \in Nat
    BY <1>0 DEF OpenCommitment, Inv, TypeInv
  <2> QED
    BY <2>1, <2>2, <2>3
<1>4. /\ Commitment \in Names /\ w \in Entry(Commitment) /\ Directory(visible) /\ w # None
      /\ durable[Commitment] = None
  BY <1>2, <1>3, NameFacts, NoneFacts DEF Entry, Values, Inv, TypeInv, DiskInv, Has
<1>5. Directory(visible') /\ visible'[Commitment] = w
      /\ \A m \in Names : m # Commitment => visible'[m] = visible[m]
  BY <1>3, <1>4, PutEntry
<1>6. ~Pairing(x)
  BY <1>3 DEF Pairing, Toward
<1>7. Fits(x)'
  BY <1>1, <1>2, <1>3, <1>5, NameFacts DEF Fits, Has, Pairing, Keyed, Using, Toward, KeySteps
<1>8. \A q \in Procs \ {p} : ~Holds(proc[q])
  BY <1>2 DEF Inv, AloneInv
<1>9. \A q \in Procs \ {p} : \A y \in Processes : y = proc[q] => Fits(y)'
  BY <1>1, <1>2, <1>3, <1>8, KeyAppears
<1>10. proc' \in [Procs -> Processes] /\ FitInv' /\ AloneInv'
  BY <1>2, <1>3, <1>6, <1>7, <1>9, Assemble
<1>11. TypeInv'
  BY <1>1, <1>3, <1>5, <1>10 DEF Inv, TypeInv
<1>12. DiskInv'
  BY <1>1, <1>2, <1>4, <1>5, NameFacts DEF Inv, DiskInv, Has, All
<1>13. UsedInv' /\ RunnerInv'
  BY <1>1, <1>2, <1>5, NameFacts DEF Inv, UsedInv, RunnerInv, Has, All, Safe
<1> QED
  BY <1>10, <1>11, <1>12, <1>13 DEF Inv

LEMMA ReadyStep ==
    ASSUME NoneIsNoValue, Inv, NEW p \in Procs, Ready(p)
    PROVE  Inv'
<1>1. /\ UNCHANGED <<visible, durable, code, version, used, named, fresh, loaded, acked, crashes>>
      /\ At(p, "ready") /\ opened' = opened \cup {<<visible[Receipt], visible[Commitment]>>}
  BY DEF Ready, Entries
<1>2. /\ Holds(proc[p]) /\ Keyed(proc[p]) /\ Using(proc[p]) /\ Has(Commitment) /\ Has(Marker)
      /\ proc[p].binding.nonce \in Nat /\ Usable(proc[p].binding)
  BY <1>1, ProcessFields DEF At, Holds, Keyed, Using, Toward, KeySteps, Fits
<1>3. durable[Receipt] = visible[Receipt] /\ Has(Receipt)
  BY <1>2 DEF Inv, DiskInv
<1>4. visible[Receipt] \in Nat /\ visible[Commitment] \in Nat
  BY <1>2, <1>3, NameFacts DEF Inv, TypeInv, Directory, Entry, Values, Has
<1>5. UsedInv'
  BY <1>1, <1>3, <1>4, NoneFacts DEF Inv, TypeInv, UsedInv, All
<1>6. \A q \in Procs \ {p} : ~Holds(proc[q])
  BY <1>2 DEF Inv, AloneInv
<1>7. ASSUME NEW y \in Processes, Fits(y), ~Holds(y)
      PROVE  Fits(y)'
  BY <1>1, <1>7
     DEF Fits, Usable, Safe, Current, Has, All, Pairing, Holds, Keyed, Using, Toward, KeySteps
<1>8. \A q \in Procs \ {p} : \A y \in Processes : y = proc[q] => Fits(y)'
  BY <1>6, <1>7 DEF Inv, FitInv
<1>9. PICK x \in Processes : /\ proc' = [proc EXCEPT ![p] = x] /\ ~Holds(x) /\ ~Pairing(x) /\ Fits(x)
  <2>1. CASE Fail(p)
    BY <2>1, OffFits DEF Fail
  <2>2. CASE Goto(p, "running")
    <3>0. PICK x : x = [proc[p] EXCEPT !.pc = "running"]
      OBVIOUS
    <3>1. /\ x \in Processes /\ x.pc = "running" /\ x.binding = proc[p].binding
          /\ proc' = [proc EXCEPT ![p] = x]
      BY <2>2, <3>0, ProcessFields DEF Processes, Labels, Goto
    <3>2. ~Holds(x) /\ ~Pairing(x) /\ Fits(x)
      BY <1>2, <3>1 DEF Fits, Pairing, Holds, Keyed, Using, Toward, KeySteps
    <3> QED
      BY <3>1, <3>2
  <2> QED
    BY <2>1, <2>2 DEF Ready
<1>10. proc' \in [Procs -> Processes] /\ FitInv' /\ AloneInv'
  BY <1>7, <1>8, <1>9, Assemble
<1>11. TypeInv' /\ DiskInv' /\ RunnerInv'
  BY <1>1, <1>4, <1>10 DEF Inv, TypeInv, DiskInv, RunnerInv, Has, All, Safe
<1> QED
  BY <1>5, <1>10, <1>11 DEF Inv

\* What OpenBinding finds is the binding of the runner, or what it is asked with.
LEMMA KeptUsable ==
    ASSUME NoneIsNoValue, Inv, NEW b, NEW pending, NEW kept,
           b = IF Has(Bound) THEN visible[Bound] ELSE NoBinding,
           pending = IF Has(Registration) THEN visible[Registration] ELSE NoBinding,
           kept = IF Current(b) THEN b ELSE pending, Current(kept)
    PROVE  kept \in Bindings /\ kept.nonce \in Nat /\ Usable(kept)
<1>1. /\ visible[Bound] \in Bindings \cup {None} /\ visible[Registration] \in Bindings \cup {None}
  BY NameFacts DEF Inv, TypeInv, Directory, Entry
<1>2. kept \in Bindings
  BY <1>1, NoneFacts DEF Has
<1>3. kept.nonce \in Nat
  BY <1>2 DEF Bindings, Values, Current
<1>4. Usable(kept)
  BY <1>1, NoneFacts DEF Inv, RunnerInv, Usable, Has, Safe
<1> QED
  BY <1>2, <1>3, <1>4

\* A new request is only written where no process goes by another one.
LEMMA RequestAppears ==
    ASSUME NoneIsNoValue, Inv, NEW p \in Procs, Holds(proc[p]),
           NEW b, b = IF Has(Bound) THEN visible[Bound] ELSE NoBinding,
           NEW pending, pending = IF Has(Registration) THEN visible[Registration] ELSE NoBinding,
           ~Current(IF Current(b) THEN b ELSE pending),
           NEW w \in Bindings, Put(visible, visible', Registration, w),
           UNCHANGED <<durable, code, version, used, named, opened, crashes>>,
           NEW q \in Procs \ {p}, NEW y \in Processes, y = proc[q]
    PROVE  Fits(y)'
<1>1. Fits(y) /\ Has(Marker) /\ (y.pc = "post" => code \in used)
  <2>1. Fits(y) /\ Fits(proc[p]) /\ Keyed(proc[p])
    BY DEF Inv, FitInv, Holds, Keyed, Toward, KeySteps
  <2> QED
    BY <2>1, NameFacts DEF Fits, All, Has
<1>2. Registration \in Names /\ w \in Entry(Registration) /\ Directory(visible)
  BY NameFacts DEF Entry, Inv, TypeInv
<1>3. visible'[Registration] = w /\ \A m \in Names : m # Registration => visible'[m] = visible[m]
  <2>1. Put(visible, visible', Registration, w)
    OBVIOUS
  <2> QED
    BY ONLY <1>2, <2>1, PutEntry
<1>4. \A m \in Fixed \cup {Bound} : visible'[m] = visible[m]
  BY <1>3, NameFacts
<1>5. Using(y) => Usable(y.binding)'
  <2>1. Using(y) /\ crashes = 0 => Has(Bound)
    <3>1. ASSUME Using(y), crashes = 0, ~Has(Bound)
          PROVE  FALSE
      <4>1. y.binding = visible[Registration] /\ Current(y.binding)
        BY <1>1, <3>1 DEF Fits, Usable
      <4>2. y.binding # None
        BY NoneFacts DEF Processes
      <4> QED
        BY <3>1, <4>1, <4>2, NoneFacts DEF Has
    <3> QED
      BY <3>1
  <2> QED
    BY <1>1, <1>4, <2>1 DEF Fits, Usable, Has, Safe
<1>6. Using(y) => y.binding.nonce \in Nat
  BY <1>1 DEF Fits
<1>7. (Using(y))' = Using(y) /\ (Keyed(y))' = Keyed(y) /\ (Pairing(y))' = Pairing(y)
  BY DEF Using, Keyed, Pairing, Toward
<1> QED
  <2>1. Paired \subseteq Fixed /\ {Marker, Receipt, Commitment} \subseteq Fixed
    BY NameFacts
  <2> QED
    BY <1>1, <1>4, <1>5, <1>6, <1>7, <2>1 DEF Fits, Has, All, Toward

LEMMA OpenBindingStep ==
    ASSUME NoneIsNoValue, Inv, NEW p \in Procs, OpenBinding(p)
    PROVE  Inv'
<1>0. PICK b, pending, kept :
         /\ b = IF Has(Bound) THEN visible[Bound] ELSE NoBinding
         /\ pending = IF Has(Registration) THEN visible[Registration] ELSE NoBinding
         /\ kept = IF Current(b) THEN b ELSE pending
  OBVIOUS
<1>1. /\ At(p, "binding")
      /\ UNCHANGED <<durable, code, version, used, named, loaded, opened, acked, crashes>>
  BY DEF OpenBinding
<1>2. /\ Keyed(proc[p]) /\ Holds(proc[p]) /\ Has(Marker)
  BY <1>1, ProcessFields DEF At, Keyed, Holds, Toward, KeySteps, Fits
<1>3. CASE Fail(p) /\ UNCHANGED <<visible, fresh>>
  BY <1>1, <1>3, FailStep DEF Tables, Inv, TypeInv
<1>4. CASE /\ Has(Commitment) /\ Current(kept)
           /\ proc' = [proc EXCEPT ![p].pc = "ready", ![p].binding = kept]
           /\ UNCHANGED <<visible, fresh>>
  <2>0. PICK x : x = [proc[p] EXCEPT !.pc = "ready", !.binding = kept]
    OBVIOUS
  <2>1. kept \in Bindings /\ kept.nonce \in Nat /\ Usable(kept)
    BY <1>0, <1>4, KeptUsable
  <2>2. /\ x \in Processes /\ x.pc = "ready" /\ x.binding = kept
        /\ proc' = [proc EXCEPT ![p] = x]
    BY <1>4, <2>0, <2>1, ProcessFields DEF Processes, Labels
  <2>3. Fits(x) /\ ~Pairing(x)
    BY <1>2, <1>4, <2>1, <2>2 DEF Fits, Pairing, Holds, Keyed, Using, Toward, KeySteps
  <2> QED
    BY <1>1, <1>2, <1>4, <2>2, <2>3, LocalStep DEF Tables, Inv, TypeInv
<1>5. CASE /\ Has(Commitment) /\ ~Current(kept)
           /\ visible' = [visible EXCEPT ![Registration] = Request(b)]
           /\ proc' = [proc EXCEPT ![p].pc = "sync", ![p].then = "ready", ![p].binding = Request(b)]
           /\ fresh' = fresh + 1
  <2>0. PICK w, x : w = Request(b)
                    /\ x = [proc[p] EXCEPT !.pc = "sync", !.then = "ready", !.binding = w]
    OBVIOUS
  <2>1. visible[Bound] \in Bindings \cup {None} /\ b \in Bindings
    BY <1>0, NameFacts, NoneFacts DEF Inv, TypeInv, Directory, Entry, Has
  <2>2. /\ w \in Bindings /\ w.runner = b.runner /\ w.nonce = fresh + 1 /\ w.version = version
        /\ w.nonce \in Nat /\ fresh' \in Nat
    BY <1>5, <2>0, <2>1 DEF Request, Bindings, Values, Inv, TypeInv
  <2>3. /\ x \in Processes /\ x.pc = "sync" /\ x.then = "ready" /\ x.binding = w
    BY <2>0, <2>2, ProcessFields DEF Processes, Labels
  <2>4. proc' = [proc EXCEPT ![p] = x] /\ Put(visible, visible', Registration, w)
    BY <1>5, <2>0 DEF Put
  <2>5. Registration \in Names /\ w \in Entry(Registration) /\ Directory(visible) /\ w # None
    BY <2>2, NameFacts, NoneFacts DEF Entry, Inv, TypeInv
  <2>6. /\ Directory(visible') /\ visible'[Registration] = w
        /\ \A m \in Names : m # Registration => visible'[m] = visible[m]
    BY <2>4, <2>5, PutEntry
  <2>7. \A m \in Fixed \cup {Bound} : visible'[m] = visible[m]
    BY <2>6, NameFacts
  <2>8. \A q \in Procs \ {p} : \A y \in Processes : y = proc[q] => Fits(y)'
    BY <1>0, <1>1, <1>2, <1>5, <2>2, <2>4, RequestAppears
  <2>9. /\ Has(Bound) => w.runner = visible[Bound].runner
        /\ ~Has(Bound) => w.runner = None
    BY <1>0, <2>2 DEF NoBinding
  <2>10. Has(Marker)' /\ Has(Commitment)' /\ (Has(Bound)' <=> Has(Bound))
    BY <1>2, <1>5, <2>7, NameFacts DEF Has
  <2>11. Usable(w)'
    <3>1. Has(Bound) => Usable(w)'
      BY <2>7, <2>9, <2>10 DEF Usable, Safe
    <3>2. ~Has(Bound) => Usable(w)'
      BY <1>1, <2>2, <2>6, <2>10, NoneFacts DEF Usable, Current
    <3> QED
      BY <3>1, <3>2
  <2>12. ~Pairing(x) /\ Fits(x)'
    BY <2>2, <2>3, <2>10, <2>11 DEF Fits, Pairing, Keyed, Using, Toward, KeySteps
  <2>13. proc' \in [Procs -> Processes] /\ FitInv' /\ AloneInv'
    BY <1>2, <2>3, <2>4, <2>8, <2>12, Assemble
  <2>14. TypeInv'
    BY <1>1, <2>2, <2>6, <2>13 DEF Inv, TypeInv
  <2>15. DiskInv' /\ UsedInv'
    BY <1>1, <2>7, NameFacts DEF Inv, DiskInv, UsedInv, Has, All
  <2>16. RunnerInv'
    BY <1>1, <2>6, <2>7, <2>9, <2>10, NameFacts DEF Inv, RunnerInv, Has, Safe
  <2> QED
    BY <2>13, <2>14, <2>15, <2>16 DEF Inv
<1> QED
  BY <1>0, <1>3, <1>4, <1>5 DEF OpenBinding

-----------------------------------------------------------------------------
(* The runner *)

\* A token names a runner: it is the one that every process goes by.
LEMMA AcknowledgeStep ==
    ASSUME NoneIsNoValue, Inv, NEW p \in Procs, NEW r \in Runners, Acknowledge(p, r)
    PROVE  Inv'
<1>0. PICK o, b, x : /\ o = proc[p].binding /\ b = [o EXCEPT !.runner = r]
                     /\ x = [proc[p] EXCEPT !.pc = "sync", !.then = "acknowledged"]
  OBVIOUS
<1>1. /\ At(p, "running") /\ o.runner \in {None, r} /\ r # None
      /\ UNCHANGED <<durable, code, version, used, fresh, loaded, opened, acked, crashes>>
  BY <1>0, NoneFacts DEF Acknowledge
<1>2. /\ Keyed(proc[p]) /\ Using(proc[p]) /\ Has(Marker) /\ o \in Bindings /\ o.nonce \in Nat /\ Usable(o)
  BY <1>0, <1>1, ProcessFields DEF At, Keyed, Using, Toward, Fits
<1>3. b \in Bindings /\ b.runner = r /\ b.nonce = o.nonce
  BY <1>0, <1>2 DEF Bindings
<1>4. /\ \A k \in named : k[1] = o.nonce => k[2] = r
      /\ named' = named \cup {<<o.nonce, r>>}
  <2>1. b = [proc[p].binding EXCEPT !.runner = r]
    BY <1>0
  <2> QED
    BY <2>1, <1>3 DEF Acknowledge
<1>5. /\ x \in Processes /\ x.pc = "sync" /\ x.then = "acknowledged" /\ x.binding = o
  BY <1>0, ProcessFields DEF Processes, Labels
<1>6. proc' = [proc EXCEPT ![p] = x] /\ Put(visible, visible', Bound, b)
  BY <1>0 DEF Acknowledge, Store, Put
<1>7. Bound \in Names /\ b \in Entry(Bound) /\ Directory(visible) /\ b # None
  BY <1>3, NameFacts, NoneFacts DEF Entry, Inv, TypeInv
<1>8. /\ Directory(visible') /\ visible'[Bound] = b
      /\ \A m \in Names : m # Bound => visible'[m] = visible[m]
  BY <1>6, <1>7, PutEntry
<1>9. \A m \in Fixed \cup {Registration} : visible'[m] = visible[m]
  BY <1>8, NameFacts
<1>10. Has(Marker)' /\ Has(Bound)' /\ visible'[Bound].runner = r
  BY <1>2, <1>3, <1>7, <1>8, <1>9, NameFacts DEF Has
\* The runner that was bound before is the one the token names.
<1>11. crashes = 0 /\ Has(Bound) => visible[Bound].runner = r
  BY <1>1, <1>2, <1>4, NoneFacts DEF Usable, Safe, Inv, RunnerInv, Has
<1>12. ASSUME NEW c, crashes = 0,
              IF Has(Bound) THEN Safe(c, visible[Bound].runner) ELSE c = o
       PROVE  c.runner = r \/ (c.runner = None /\ <<c.nonce, r>> \in named')
  BY <1>1, <1>4, <1>11, <1>12 DEF Safe
<1>13. ASSUME NEW c, Usable(c)
       PROVE  Usable(c)'
  <2>1. ASSUME crashes = 0
        PROVE  c.runner = r \/ (c.runner = None /\ <<c.nonce, r>> \in named')
    BY <1>2, <1>12, <1>13, <2>1 DEF Usable
  <2> QED
    BY <1>1, <1>10, <2>1 DEF Usable, Safe
<1>14. ASSUME NEW y \in Processes, Fits(y)
       PROVE  Fits(y)'
  <2>1. y.pc = "post" => code \in used
    BY <1>2, <1>14, NameFacts DEF Fits, All, Has
  <2>2. Using(y) => y.binding.nonce \in Nat /\ Usable(y.binding)'
    BY <1>13, <1>14 DEF Fits
  <2>3. (Using(y))' = Using(y) /\ (Keyed(y))' = Keyed(y) /\ (Pairing(y))' = Pairing(y)
    BY DEF Using, Keyed, Pairing, Toward
  <2>4. Paired \subseteq Fixed /\ {Marker, Receipt, Commitment} \subseteq Fixed
    BY NameFacts
  <2> QED
    BY <1>1, <1>9, <1>10, <1>14, <2>1, <2>2, <2>3, <2>4 DEF Fits, Has, All, Toward
<1>15. Fits(x)' /\ ~Pairing(x) /\ ~Holds(x)
  <2>1. Usable(o)'
    BY <1>2, <1>13
  <2> QED
    BY <1>2, <1>5, <1>10, <2>1 DEF Fits, Pairing, Holds, Keyed, Using, Toward, KeySteps
<1>16. \A q \in Procs \ {p} : \A y \in Processes : y = proc[q] => Fits(y)'
  BY <1>14 DEF Inv, FitInv
<1>17. proc' \in [Procs -> Processes] /\ FitInv' /\ AloneInv'
  BY <1>5, <1>6, <1>15, <1>16, Assemble
<1>18. TypeInv'
  BY <1>1, <1>2, <1>4, <1>8, <1>17 DEF Inv, TypeInv
<1>19. DiskInv' /\ UsedInv'
  BY <1>1, <1>9, NameFacts DEF Inv, DiskInv, UsedInv, Has, All
<1>20. RunnerInv'
  <2>1. \A k, l \in named' : k[1] = l[1] => k = l
    <3>1. \A k \in named : k = <<k[1], k[2]>>
      BY DEF Inv, TypeInv
    <3> QED
      BY <1>4, <3>1 DEF Inv, RunnerInv
  <2>2. \A d \in {visible', durable'} : d[Bound] # None => d[Bound].runner \in Runners /\ d[Bound].nonce \in Nat
    BY <1>1, <1>2, <1>3, <1>8 DEF Inv, RunnerInv
  <2>3. crashes = 0 => acked \subseteq {r}
    BY <1>11 DEF Inv, RunnerInv
  <2>4. ASSUME crashes = 0, Has(Registration)
        PROVE  Safe(visible[Registration], r)'
    <3>1. CASE Has(Bound)
      BY <1>1, <1>12, <1>9, <2>4, <3>1 DEF Inv, RunnerInv, Safe
    <3>2. CASE ~Has(Bound)
      <4>1. o = visible[Registration]
        BY <1>2, <2>4, <3>2 DEF Usable
      <4> QED
        BY <1>1, <1>4, <1>9, <4>1 DEF Safe
    <3> QED
      BY <3>1, <3>2
  <2>5. Has(Registration)' <=> Has(Registration)
    BY <1>9 DEF Has
  <2> QED
    BY <1>1, <1>10, <2>1, <2>2, <2>3, <2>4, <2>5 DEF RunnerInv, Safe
<1> QED
  BY <1>17, <1>18, <1>19, <1>20 DEF Inv

LEMMA AcknowledgedStep ==
    ASSUME NoneIsNoValue, Inv, NEW p \in Procs, Acknowledged(p)
    PROVE  Inv'
<1>0. PICK x : x = [proc[p] EXCEPT !.pc = "running", !.binding = visible[Bound]]
  OBVIOUS
<1>1. /\ UNCHANGED <<visible, durable, code, version, used, named, fresh, loaded, opened, crashes>>
      /\ At(p, "acknowledged") /\ acked' = acked \cup {visible[Bound].runner}
      /\ proc' = [proc EXCEPT ![p] = x]
  BY <1>0 DEF Acknowledged, Entries
<1>2. Has(Marker) /\ Has(Bound)
  BY <1>1, ProcessFields DEF At, Keyed, Toward, Fits
<1>3. /\ visible[Bound] \in Bindings
      /\ visible[Bound].runner \in Runners /\ visible[Bound].nonce \in Nat
  BY <1>2, NameFacts DEF Inv, TypeInv, Directory, Entry, RunnerInv, Has
<1>4. x \in Processes /\ x.pc = "running" /\ x.binding = visible[Bound]
  BY <1>0, <1>3, ProcessFields DEF Processes, Labels
<1>5. Usable(visible[Bound])
  BY <1>2 DEF Usable, Safe
<1>6. Fits(x) /\ ~Pairing(x) /\ ~Holds(x)
  BY <1>2, <1>3, <1>4, <1>5 DEF Fits, Pairing, Holds, Keyed, Using, Toward, KeySteps
<1>7. \A y : Fits(y) => Fits(y)'
  BY <1>1, SameFits
<1>8. \A q \in Procs \ {p} : \A y \in Processes : y = proc[q] => Fits(y)'
  BY <1>7 DEF Inv, FitInv
<1>9. proc' \in [Procs -> Processes] /\ FitInv' /\ AloneInv'
  BY <1>1, <1>4, <1>6, <1>7, <1>8, Assemble
<1>10. TypeInv' /\ DiskInv' /\ UsedInv'
  BY <1>1, <1>3, <1>9 DEF Inv, TypeInv, DiskInv, UsedInv, Has, All
<1>11. RunnerInv'
  BY <1>1, <1>2 DEF Inv, RunnerInv, Has, Safe
<1> QED
  BY <1>9, <1>10, <1>11 DEF Inv

-----------------------------------------------------------------------------
(* The invariant *)

LEMMA InitInv ==
    ASSUME NoneIsNoValue, Init
    PROVE  Inv
<1>1. /\ \A n \in Names : visible[n] = None /\ durable[n] = None
      /\ Directory(visible) /\ Directory(durable)
  BY DEF Init, Directory, Entry, Values
<1>2. proc \in [Procs -> Processes] /\ \A q \in Procs : proc[q] = Off
  BY OffFits DEF Init
<1>3. FitInv /\ AloneInv
  BY <1>2, OffFits DEF FitInv, AloneInv
<1>4. TypeInv
  BY <1>1, <1>2 DEF Init, TypeInv
<1>5. DiskInv /\ UsedInv /\ RunnerInv
  BY <1>1, NameFacts DEF Init, DiskInv, UsedInv, RunnerInv, Has
<1> QED
  BY <1>3, <1>4, <1>5 DEF Inv

LEMMA NextInv ==
    ASSUME NoneIsNoValue, Inv, [Next]_vars
    PROVE  Inv'
<1>1. ASSUME NEW p \in Procs, Start(p) \/ Sync(p) \/ PairStep(p) \/ Load(p) \/ KeyStep(p) \/ Kill(p)
      PROVE  Inv'
  BY <1>1, StartStep, PreparingStep, StagingStep, AsideStep, PostStep, RenameStep, PublishStep,
     LoadedStep, SyncStep, OpenKeysStep, OpenCommitmentStep, OpenBindingStep, ReadyStep,
     AcknowledgedStep DEF PairStep, KeyStep
<1>2. ASSUME NEW p \in Procs, NEW r \in Runners, Acknowledge(p, r)
      PROVE  Inv'
  BY <1>2, AcknowledgeStep
<1>3. CASE Approve \/ Configure \/ HostCrash
  BY <1>3, AsideStep, ConfigureStep, HostCrashStep
<1>4. CASE UNCHANGED vars
  <2>1. ASSUME NEW q \in Procs
        PROVE  Fits(proc[q])'
    <3>1. PICK y : y = proc[q] /\ Fits(y)
      BY DEF Inv, FitInv
    <3>2. Fits(y)'
      BY <1>4, <3>1, SameFits DEF vars
    <3> QED
      BY <1>4, <3>1, <3>2 DEF vars, Fits, Pairing, Holds, Keyed, Using, Toward
  <2>2. FitInv'
    BY <2>1 DEF FitInv
  <2> QED
    BY <1>4, <2>2
       DEF vars, Inv, TypeInv, AloneInv, DiskInv, UsedInv, RunnerInv, Safe, Has, All, Pairing, Holds, Toward
<1> QED
  BY <1>1, <1>2, <1>3, <1>4 DEF Next

\* The invariant holds in every state of the volume.
THEOREM VolumeInvariant ==
    ASSUME NoneIsNoValue
    PROVE  Spec => []Inv
<1>1. Init => Inv
  BY InitInv
<1>2. Inv /\ [Next]_vars => Inv'
  BY NextInv
<1> QED
  BY <1>1, <1>2, PTL DEF Spec

\* A paired volume holds the state of one attempt, and one identity, one pair
\* of verification keys and, until the host crashes, one runner are ever given
\* out: StateVolume's property, for every number of processes, starts, images
\* and crashes (pairing.go: Pair, Load; keys.go: OpenKeys, Acknowledge).
THEOREM IdentityIsKept ==
    ASSUME NoneIsNoValue
    PROVE  Spec => []VolumeKeepsIdentity
<1>1. ASSUME NEW S, \A x, y \in S : x = y
      PROVE  Cardinality(S) <= 1
  <2>1. CASE S = {}
    BY <2>1, FS_EmptySet
  <2>2. CASE S # {}
    <3>1. PICK x \in S : S = {x}
      BY <1>1, <2>2
    <3> QED
      BY <3>1, FS_Singleton
  <2> QED
    BY <2>1, <2>2
<1>2. ASSUME Inv
      PROVE  VolumeKeepsIdentity
  <2>1. Has(Marker) => \A n \in Paired : visible[n] = visible[Marker]
    BY <1>2 DEF Inv, DiskInv, All
  <2>2. \A x, y \in loaded : x = y
    <3>1. \A x \in loaded : All(durable, Paired, x)
      BY <1>2 DEF Inv, UsedInv
    <3> QED
      BY <3>1, NameFacts DEF All
  <2>3. \A x, y \in opened : x = y
    BY <1>2 DEF Inv, UsedInv
  <2>4. crashes = 0 => \A x, y \in acked : x = y
    BY <1>2 DEF Inv, RunnerInv
  <2>5. /\ Cardinality(loaded) <= 1 /\ Cardinality(opened) <= 1
        /\ crashes = 0 => Cardinality(acked) <= 1
    BY <1>1, <2>2, <2>3, <2>4
  <2> QED
    BY <2>1, <2>5 DEF VolumeKeepsIdentity
<1>3. Inv => VolumeKeepsIdentity
  BY <1>2
<1> QED
  BY <1>3, VolumeInvariant, PTL
====
