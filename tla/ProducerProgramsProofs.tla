----------------------- MODULE ProducerProgramsProofs -----------------------
(***************************************************************************)
(* Proofs about ProducerPrograms, for any number of commands and sessions  *)
(* and any storage and bit rate.                                           *)
(*                                                                         *)
(* The properties are about objects, their proofs about scripts: the steps *)
(* an actor has left are in the order of their ranks (Scripts), what is    *)
(* still to be created does not exist and what is still to be freed may    *)
(* (SettingUp, Pointers, Ownership), an object is freed behind those built *)
(* on it (FreesInOrder), and main frees only behind the joins of the       *)
(* threads that use the objects (Joined).  ProgramInv puts them together   *)
(* and is inductive.                                                       *)
(***************************************************************************)
EXTENDS ProducerPrograms, TLAPS

(* The steps of the scripts, their kinds and their ranks.                  *)
LEMMA StepFacts ==
  /\ \A x \in AllSteps :
       /\ Rank(x) \in Nat
       /\ x.do = "create" => x.what \in Resources /\ x = Create(x.what) /\ Rank(x) \in 1..6
       /\ x.do = "free" => x.what \in Held /\ x = Free(x.what) /\ Rank(x) = 12
       /\ x.do = "join" => x.what \in {"video", "audio"} /\ x = Join(x.what) /\ Rank(x) = 10
       /\ x.do = "stop" => x = Stop
       /\ x.do = "start" => x = Start
       /\ x.do = "put" => x = Put
       /\ x.do = "frames" => x = Frames
       /\ x.do = "mark" => x = Mark
       /\ x.do = "load" => x = Load
       /\ x.do \in {"create", "free", "join", "stop", "start", "put", "frames", "mark", "load"}
  <1> USE DEF Create, Free, Join, Load, Stop, Start, Put, Frames, Mark, Step, Rank, CreateRank, StepRank
  <1> SUFFICES ASSUME NEW x \in AllSteps
               PROVE  /\ Rank(x) \in Nat
                      /\ x.do = "create" => x.what \in Resources /\ x = Create(x.what) /\ Rank(x) \in 1..6
                      /\ x.do = "free" => x.what \in Held /\ x = Free(x.what) /\ Rank(x) = 12
                      /\ x.do = "join" => x.what \in {"video", "audio"} /\ x = Join(x.what) /\ Rank(x) = 10
                      /\ x.do = "stop" => x = Stop
                      /\ x.do = "start" => x = Start
                      /\ x.do = "put" => x = Put
                      /\ x.do = "frames" => x = Frames
                      /\ x.do = "mark" => x = Mark
                      /\ x.do = "load" => x = Load
                      /\ x.do \in {"create", "free", "join", "stop", "start", "put", "frames", "mark", "load"}
    OBVIOUS
  <1>1. CASE x \in {Load, Start, Put, Frames, Mark, Stop}
    <2>1. CASE x = Load
      BY <2>1
    <2>2. CASE x = Start
      BY <2>2
    <2>3. CASE x = Put
      BY <2>3
    <2>4. CASE x = Frames
      BY <2>4
    <2>5. CASE x = Mark
      BY <2>5
    <2>6. CASE x = Stop
      BY <2>6
    <2> QED BY <1>1, <2>1, <2>2, <2>3, <2>4, <2>5, <2>6
  <1>2. CASE \E r \in Resources : x = Create(r)
    BY <1>2 DEF Resources
  <1>3. CASE \E r \in Held : x = Free(r)
    BY <1>3
  <1>4. CASE x \in {Join("video"), Join("audio")}
    <2>1. CASE x = Join("video")
      BY <2>1
    <2>2. CASE x = Join("audio")
      BY <2>2
    <2> QED BY <1>4, <2>1, <2>2
  <1> QED BY <1>1, <1>2, <1>3, <1>4 DEF AllSteps

(* The ranks and the steps that differ, as the proofs use them.            *)
LEMMA RankFacts ==
  /\ \A r \in Resources : /\ Create(r) \in AllSteps /\ Create(r).do = "create"
                          /\ Create(r).what = r /\ Rank(Create(r)) \in 1..6
  /\ Rank(Create("device")) = 1
  /\ \A r \in Resources : Rank(Create(r)) = 1 => r = "device"
  /\ Rank(Create("callbacks")) < Rank(Create("streamCallbacks"))
  /\ \A r, n \in Resources : <<r, n>> \in MadeFrom => Rank(Create(n)) < Rank(Create(r))
  /\ \A r \in Held : /\ Free(r) \in AllSteps /\ Free(r).do = "free" /\ Free(r).what = r
                     /\ Rank(Free(r)) = 12
  /\ \A t \in {"video", "audio"} : /\ Join(t) \in AllSteps /\ Join(t).do = "join"
                                   /\ Join(t).what = t /\ Rank(Join(t)) = 10
  /\ Start \in AllSteps /\ Start.do = "start" /\ Rank(Start) = 7
  /\ Put \in AllSteps /\ Put.do = "put" /\ Rank(Put) = 8
  /\ Mark \in AllSteps /\ Mark.do = "mark" /\ Rank(Mark) = 8
  /\ Frames \in AllSteps /\ Frames.do = "frames" /\ Rank(Frames) = 9
  /\ Stop \in AllSteps /\ Stop.do = "stop" /\ Rank(Stop) = 11
  /\ Load \in AllSteps /\ Load.do = "load" /\ Rank(Load) = 0
  <1> USE DEF Create, Free, Join, Load, Stop, Start, Put, Frames, Mark, Step, Rank, CreateRank, StepRank
  <1>1. \A r \in Resources : /\ Create(r) \in AllSteps /\ Create(r).do = "create"
                          /\ Create(r).what = r /\ Rank(Create(r)) \in 1..6
    <2>1. \A r \in Resources : Create(r) \in AllSteps
      BY ZenonT(30) DEF AllSteps
    <2>2. \A r \in Resources : Create(r).do = "create" /\ Create(r).what = r
      OBVIOUS
    <2>3. \A r \in Resources : Rank(Create(r)) \in 1..6
      BY DEF Resources
    <2> QED BY <2>1, <2>2, <2>3, ZenonT(30)
  <1>2. /\ \A r \in Held : /\ Free(r) \in AllSteps /\ Free(r).do = "free" /\ Free(r).what = r
                           /\ Rank(Free(r)) = 12
        /\ \A t \in {"video", "audio"} : /\ Join(t) \in AllSteps /\ Join(t).do = "join"
                                         /\ Join(t).what = t /\ Rank(Join(t)) = 10
    BY DEF AllSteps
  <1>3. /\ Rank(Create("device")) = 1
        /\ \A r \in Resources : Rank(Create(r)) = 1 => r = "device"
        /\ Rank(Create("callbacks")) < Rank(Create("streamCallbacks"))
        /\ \A r, n \in Resources : <<r, n>> \in MadeFrom => Rank(Create(n)) < Rank(Create(r))
    BY DEF MadeFrom, Resources
  <1>4. /\ Start \in AllSteps /\ Start.do = "start" /\ Rank(Start) = 7
        /\ Put \in AllSteps /\ Put.do = "put" /\ Rank(Put) = 8
        /\ Mark \in AllSteps /\ Mark.do = "mark" /\ Rank(Mark) = 8
        /\ Frames \in AllSteps /\ Frames.do = "frames" /\ Rank(Frames) = 9
        /\ Stop \in AllSteps /\ Stop.do = "stop" /\ Rank(Stop) = 11
        /\ Load \in AllSteps /\ Load.do = "load" /\ Rank(Load) = 0
    BY DEF AllSteps
  <1> QED BY <1>1, <1>2, <1>3, <1>4

-----------------------------------------------------------------------------
(* What is left of a script when its first step is done.                   *)
LEMMA TailFacts ==
  ASSUME NEW q \in Seq(AllSteps), q # << >>
  PROVE  /\ Head(q) \in AllSteps /\ Head(q) = q[1] /\ Tail(q) \in Seq(AllSteps)
         /\ DOMAIN q = 1..Len(q) /\ Len(q) \in Nat /\ 1 \in DOMAIN q
         /\ DOMAIN Tail(q) = 1..(Len(q) - 1)
         /\ \A i \in DOMAIN Tail(q) : i \in Nat /\ i + 1 \in DOMAIN q /\ Tail(q)[i] = q[i + 1]
         /\ \A i \in DOMAIN q : i = 1 \/ (i - 1 \in DOMAIN Tail(q) /\ q[i] = Tail(q)[i - 1])
         /\ Left(q) = {Head(q)} \cup Left(Tail(q))
         /\ Left(q) \subseteq AllSteps
  <1>1. /\ Head(q) \in AllSteps /\ Head(q) = q[1] /\ Tail(q) \in Seq(AllSteps)
        /\ DOMAIN q = 1..Len(q) /\ Len(q) \in Nat /\ 1 \in DOMAIN q
        /\ DOMAIN Tail(q) = 1..(Len(q) - 1)
        /\ \A i \in DOMAIN Tail(q) : i \in Nat /\ i + 1 \in DOMAIN q /\ Tail(q)[i] = q[i + 1]
    <2>1. Len(q) \in Nat /\ Len(q) # 0 /\ DOMAIN q = 1..Len(q)
      OBVIOUS
    <2>2. Tail(q) \in Seq(AllSteps) /\ Len(Tail(q)) = Len(q) - 1
      BY <2>1
    <2>3. DOMAIN Tail(q) = 1..(Len(q) - 1)
      BY <2>2
    <2>4. \A i \in 1..(Len(q) - 1) : Tail(q)[i] = q[i + 1]
      BY <2>1
    <2> QED BY <2>1, <2>2, <2>3, <2>4
  <1>2. \A i \in DOMAIN q : i = 1 \/ (i - 1 \in DOMAIN Tail(q) /\ q[i] = Tail(q)[i - 1])
    BY <1>1
  <1>3. Left(q) = {Head(q)} \cup Left(Tail(q))
    <2>1. ASSUME NEW y \in Left(q)
          PROVE  y \in {Head(q)} \cup Left(Tail(q))
      <3>1. PICK i \in DOMAIN q : y = q[i]
        BY <2>1 DEF Left
      <3> QED BY <1>1, <1>2, <3>1 DEF Left
    <2>2. ASSUME NEW y \in Left(Tail(q))
          PROVE  y \in Left(q)
      <3>1. PICK i \in DOMAIN Tail(q) : y = Tail(q)[i]
        BY <2>2 DEF Left
      <3> QED BY <1>1, <3>1 DEF Left
    <2>3. Head(q) \in Left(q)
      BY <1>1 DEF Left
    <2> QED BY <2>1, <2>2, <2>3
  <1>4. Left(q) \subseteq AllSteps
    BY DEF Left
  <1> QED BY <1>1, <1>2, <1>3, <1>4

LEMMA TailInOrder ==
  ASSUME NEW q \in Seq(AllSteps), q # << >>, InOrder(q)
  PROVE  /\ InOrder(Tail(q))
         /\ \A x \in Left(Tail(q)) : /\ Rank(Head(q)) <= Rank(x)
                                     /\ Head(q).do = "create" => Rank(Head(q)) < Rank(x)
  <1>1. InOrder(Tail(q))
    BY TailFacts DEF InOrder
  <1>2. ASSUME NEW i \in DOMAIN Tail(q)
        PROVE  /\ Rank(Head(q)) <= Rank(Tail(q)[i])
               /\ Head(q).do = "create" => Rank(Head(q)) < Rank(Tail(q)[i])
    <2>1. 1 \in DOMAIN q /\ i + 1 \in DOMAIN q /\ 1 < i + 1
      BY TailFacts
    <2> QED BY <2>1, TailFacts DEF InOrder
  <1> QED BY <1>1, <1>2 DEF Left

(* A step put in front of a script.                                        *)
LEMMA PushFacts ==
  ASSUME NEW q \in Seq(AllSteps), NEW x \in AllSteps
  PROVE  /\ <<x>> \o q \in Seq(AllSteps)
         /\ <<x>> \o q # << >> /\ Head(<<x>> \o q) = x
         /\ DOMAIN (<<x>> \o q) = 1..(Len(q) + 1) /\ Len(q) \in Nat
         /\ (<<x>> \o q)[1] = x
         /\ \A i \in 2..(Len(q) + 1) : i - 1 \in DOMAIN q /\ (<<x>> \o q)[i] = q[i - 1]
         /\ Left(<<x>> \o q) = {x} \cup Left(q)
  <1>1. /\ <<x>> \o q \in Seq(AllSteps)
        /\ <<x>> \o q # << >> /\ Head(<<x>> \o q) = x
        /\ DOMAIN (<<x>> \o q) = 1..(Len(q) + 1) /\ Len(q) \in Nat
        /\ (<<x>> \o q)[1] = x
        /\ \A i \in 2..(Len(q) + 1) : i - 1 \in DOMAIN q /\ (<<x>> \o q)[i] = q[i - 1]
    <2>1. <<x>> \in Seq(AllSteps) /\ Len(<<x>>) = 1 /\ <<x>>[1] = x
      OBVIOUS
    <2>2. Len(q) \in Nat /\ DOMAIN q = 1..Len(q)
      OBVIOUS
    <2>3. <<x>> \o q \in Seq(AllSteps) /\ Len(<<x>> \o q) = Len(q) + 1
      BY <2>1, <2>2
    <2>4. \A i \in 1..(Len(q) + 1) :
            (<<x>> \o q)[i] = IF i <= 1 THEN <<x>>[i] ELSE q[i - 1]
      BY <2>1, <2>2
    <2>5. DOMAIN (<<x>> \o q) = 1..(Len(q) + 1)
      BY <2>2, <2>3
    <2> QED BY <2>1, <2>2, <2>3, <2>4, <2>5
  <1>2. \A i \in DOMAIN q : i + 1 \in 2..(Len(q) + 1) /\ (<<x>> \o q)[i + 1] = q[i]
    BY <1>1
  <1>3. Left(<<x>> \o q) \subseteq {x} \cup Left(q)
    BY <1>1 DEF Left
  <1>4. {x} \cup Left(q) \subseteq Left(<<x>> \o q)
    <2>1. x \in Left(<<x>> \o q)
      <3>1. 1 \in DOMAIN (<<x>> \o q)
        BY <1>1
      <3> QED BY <1>1, <3>1 DEF Left
    <2>2. ASSUME NEW y \in Left(q)
          PROVE  y \in Left(<<x>> \o q)
      <3>1. PICK i \in DOMAIN q : y = q[i]
        BY <2>2 DEF Left
      <3>2. i + 1 \in DOMAIN (<<x>> \o q) /\ (<<x>> \o q)[i + 1] = y
        BY <1>1, <1>2, <3>1
      <3> QED BY <3>2 DEF Left
    <2> QED BY <2>1, <2>2
  <1> QED BY <1>1, <1>3, <1>4

LEMMA PushInOrder ==
  ASSUME NEW q \in Seq(AllSteps), NEW x \in AllSteps, InOrder(q), x.do # "create",
         \A y \in Left(q) : Rank(x) <= Rank(y)
  PROVE  InOrder(<<x>> \o q)
  <1> DEFINE p == <<x>> \o q
  <1> SUFFICES ASSUME NEW i \in DOMAIN p, NEW j \in DOMAIN p, i < j
               PROVE  Rank(p[i]) <= Rank(p[j]) /\ (p[i].do = "create" => Rank(p[i]) < Rank(p[j]))
    BY DEF InOrder
  <1>1. j \in 2..(Len(q) + 1) /\ i \in Nat /\ j \in Nat
    BY PushFacts
  <1>2. CASE i = 1
    BY <1>1, <1>2, PushFacts DEF Left
  <1>3. CASE i # 1
    <2>1. i \in 2..(Len(q) + 1)
      BY <1>1, <1>3, PushFacts
    <2>2. i - 1 \in DOMAIN q /\ j - 1 \in DOMAIN q /\ p[i] = q[i - 1] /\ p[j] = q[j - 1]
      BY <1>1, <2>1, PushFacts
    <2> QED BY <1>1, <2>2 DEF InOrder
  <1> QED BY <1>2, <1>3

-----------------------------------------------------------------------------
(* The scripts.  A script is sound if it is in order and frees what is     *)
(* made from an object before the object.                                  *)
FreedBefore(q) ==
  \A r, n \in Resources, i \in DOMAIN q :
    <<r, n>> \in MadeFrom /\ q[i] = Free(n) => \E j \in 1..(i - 1) : q[j] = Free(r)

SoundScript(q) == q \in Seq(AllSteps) /\ InOrder(q) /\ FreedBefore(q)

CreateSteps == {Create(r) : r \in Resources}
FreeSteps   == {Free(r) : r \in Held}

(* Two scripts one after the other.                                        *)
LEMMA ConcatSound ==
  ASSUME NEW p, NEW q, SoundScript(p), SoundScript(q),
         \A x \in Left(p), y \in Left(q) :
           Rank(x) <= Rank(y) /\ (x.do = "create" => Rank(x) < Rank(y))
  PROVE  SoundScript(p \o q) /\ Left(p \o q) = Left(p) \cup Left(q)
  <1> DEFINE c == p \o q
  <1>1. p \in Seq(AllSteps) /\ q \in Seq(AllSteps) /\ Len(p) \in Nat /\ Len(q) \in Nat
        /\ DOMAIN p = 1..Len(p) /\ DOMAIN q = 1..Len(q)
    BY DEF SoundScript
  <1>2. c \in Seq(AllSteps) /\ Len(c) = Len(p) + Len(q)
    BY <1>1
  <1>3. DOMAIN c = 1..(Len(p) + Len(q))
    BY <1>1, <1>2
  <1>4. /\ \A i \in 1..Len(p) : c[i] = p[i]
        /\ \A i \in 1..Len(q) : c[i + Len(p)] = q[i]
    BY <1>1
  <1>5. \A i \in DOMAIN c : \/ i \in DOMAIN p /\ c[i] = p[i]
                            \/ i > Len(p) /\ i - Len(p) \in DOMAIN q /\ c[i] = q[i - Len(p)]
    <2> SUFFICES ASSUME NEW i \in DOMAIN c, i \notin DOMAIN p
                 PROVE  i > Len(p) /\ i - Len(p) \in DOMAIN q /\ c[i] = q[i - Len(p)]
      BY <1>1, <1>4
    <2>1. i \in Nat /\ i > Len(p) /\ i - Len(p) \in 1..Len(q)
      BY <1>1, <1>3
    <2>2. i = (i - Len(p)) + Len(p)
      BY <1>1, <2>1
    <2>3. c[(i - Len(p)) + Len(p)] = q[i - Len(p)]
      BY <1>4, <2>1
    <2> QED BY <1>1, <2>1, <2>2, <2>3
  <1> HIDE DEF c
  <1>6. Left(c) = Left(p) \cup Left(q)
    <2>1. ASSUME NEW y \in Left(c)
          PROVE  y \in Left(p) \cup Left(q)
      <3>1. PICK i \in DOMAIN c : y = c[i]
        BY <2>1 DEF Left
      <3> QED BY <1>5, <3>1 DEF Left
    <2>2. ASSUME NEW y \in Left(p)
          PROVE  y \in Left(c)
      <3>1. PICK i \in DOMAIN p : y = p[i]
        BY <2>2 DEF Left
      <3>2. i \in DOMAIN c /\ c[i] = y
        BY <1>1, <1>3, <1>4, <3>1
      <3> QED BY <3>2 DEF Left
    <2>3. ASSUME NEW y \in Left(q)
          PROVE  y \in Left(c)
      <3>1. PICK i \in DOMAIN q : y = q[i]
        BY <2>3 DEF Left
      <3>2. i + Len(p) \in DOMAIN c /\ c[i + Len(p)] = y
        BY <1>1, <1>3, <1>4, <3>1
      <3> QED BY <3>2 DEF Left
    <2> QED BY <2>1, <2>2, <2>3
  <1>7. InOrder(c)
    <2> SUFFICES ASSUME NEW i \in DOMAIN c, NEW j \in DOMAIN c, i < j
                 PROVE  Rank(c[i]) <= Rank(c[j]) /\ (c[i].do = "create" => Rank(c[i]) < Rank(c[j]))
      BY DEF InOrder
    <2>0. i \in Nat /\ j \in Nat
      BY <1>1, <1>3
    <2>1. CASE i \in DOMAIN p /\ c[i] = p[i] /\ j \in DOMAIN p /\ c[j] = p[j]
      BY <2>1 DEF SoundScript, InOrder
    <2>2. CASE i \in DOMAIN p /\ c[i] = p[i] /\ j - Len(p) \in DOMAIN q /\ c[j] = q[j - Len(p)]
      BY <2>2 DEF Left
    <2>3. CASE /\ i > Len(p) /\ i - Len(p) \in DOMAIN q /\ c[i] = q[i - Len(p)]
               /\ j - Len(p) \in DOMAIN q /\ c[j] = q[j - Len(p)]
      <3>1. i - Len(p) < j - Len(p)
        BY <1>1, <2>0
      <3> QED BY <2>3, <3>1 DEF SoundScript, InOrder
    <2>4. ~(i > Len(p) /\ j \in DOMAIN p)
      BY <1>1, <2>0
    <2> QED BY <1>5, <2>1, <2>2, <2>3, <2>4
  <1>8. FreedBefore(c)
    <2> SUFFICES ASSUME NEW r \in Resources, NEW n \in Resources, NEW i \in DOMAIN c,
                        <<r, n>> \in MadeFrom, c[i] = Free(n)
                 PROVE  \E j \in 1..(i - 1) : c[j] = Free(r)
      BY DEF FreedBefore
    <2>1. CASE i \in DOMAIN p /\ c[i] = p[i]
      <3>1. PICK j \in 1..(i - 1) : p[j] = Free(r)
        BY <2>1 DEF SoundScript, FreedBefore
      <3>2. c[j] = p[j]
        BY <1>1, <1>4, <2>1, <3>1
      <3> QED BY <3>1, <3>2
    <2>2. CASE i > Len(p) /\ i - Len(p) \in DOMAIN q /\ c[i] = q[i - Len(p)]
      <3>1. PICK j \in 1..((i - Len(p)) - 1) : q[j] = Free(r)
        BY <2>2 DEF SoundScript, FreedBefore
      <3>2. j \in 1..Len(q) /\ j + Len(p) \in 1..(i - 1)
        BY <1>1, <1>3, <2>2, <3>1
      <3>3. c[j + Len(p)] = Free(r)
        BY <1>4, <3>1, <3>2
      <3> QED BY <3>2, <3>3
    <2> QED BY <1>5, <2>1, <2>2
  <1> QED BY <1>2, <1>6, <1>7, <1>8 DEF SoundScript, c

(* Scripts without frees only have to be in order.                         *)
LEMMA NoFreesSound ==
  ASSUME NEW q \in Seq(AllSteps), InOrder(q), \A x \in Left(q) : x.do # "free"
  PROVE  SoundScript(q)
  BY DEF SoundScript, FreedBefore, Left, Free, Step

(* Scripts of up to three steps, and of five and six.                      *)
LEMMA ShortScripts ==
  /\ \A x \in AllSteps :
       /\ <<x>> \in Seq(AllSteps) /\ DOMAIN <<x>> = 1..1 /\ Left(<<x>>) = {x}
  /\ \A x, y \in AllSteps :
       /\ <<x, y>> \in Seq(AllSteps) /\ DOMAIN <<x, y>> = 1..2 /\ Left(<<x, y>>) = {x, y}
  /\ \A x, y, z \in AllSteps :
       /\ <<x, y, z>> \in Seq(AllSteps) /\ DOMAIN <<x, y, z>> = 1..3
       /\ Left(<<x, y, z>>) = {x, y, z}
  <1>1. ASSUME NEW x \in AllSteps
        PROVE  <<x>> \in Seq(AllSteps) /\ DOMAIN <<x>> = 1..1 /\ Left(<<x>>) = {x}
    <2>1. <<x>> \in Seq(AllSteps) /\ DOMAIN <<x>> = 1..1 /\ <<x>>[1] = x
      OBVIOUS
    <2>2. \A y : y \in Left(<<x>>) <=> y = x
      BY <2>1 DEF Left
    <2> QED BY <2>1, <2>2
  <1>2. ASSUME NEW x \in AllSteps, NEW y \in AllSteps
        PROVE  <<x, y>> \in Seq(AllSteps) /\ DOMAIN <<x, y>> = 1..2 /\ Left(<<x, y>>) = {x, y}
    <2> DEFINE q == <<x, y>>
    <2>1. q \in Seq(AllSteps) /\ DOMAIN q = 1..2 /\ q[1] = x /\ q[2] = y
      OBVIOUS
    <2>2. 1 \in 1..2 /\ 2 \in 1..2 /\ \A i \in 1..2 : i = 1 \/ i = 2
      OBVIOUS
    <2> HIDE DEF q
    <2>3. \A w : w \in Left(q) <=> w = x \/ w = y
      BY <2>1, <2>2 DEF Left
    <2>4. Left(q) = {x, y}
      BY <2>3
    <2> QED BY <2>1, <2>4 DEF q
  <1>3. ASSUME NEW x \in AllSteps, NEW y \in AllSteps, NEW z \in AllSteps
        PROVE  /\ <<x, y, z>> \in Seq(AllSteps) /\ DOMAIN <<x, y, z>> = 1..3
               /\ Left(<<x, y, z>>) = {x, y, z}
    <2> DEFINE q == <<x, y, z>>
    <2>1. q \in Seq(AllSteps) /\ DOMAIN q = 1..3 /\ q[1] = x /\ q[2] = y /\ q[3] = z
      OBVIOUS
    <2>2. 1 \in 1..3 /\ 2 \in 1..3 /\ 3 \in 1..3 /\ \A i \in 1..3 : i = 1 \/ i = 2 \/ i = 3
      OBVIOUS
    <2> HIDE DEF q
    <2>3. \A w : w \in Left(q) <=> w = x \/ w = y \/ w = z
      BY <2>1, <2>2 DEF Left
    <2>4. Left(q) = {x, y, z}
      BY <2>3
    <2> QED BY <2>1, <2>4 DEF q
  <1> QED BY <1>1, <1>2, <1>3

LEMMA ShortInOrder ==
  ASSUME NEW x \in AllSteps, NEW y \in AllSteps, NEW z \in AllSteps,
         x.do # "create", y.do # "create", Rank(x) <= Rank(y), Rank(y) <= Rank(z)
  PROVE  InOrder(<<x, y, z>>)
  <1> DEFINE q == <<x, y, z>>
  <1>1. DOMAIN q = 1..3 /\ q[1] = x /\ q[2] = y /\ q[3] = z
    OBVIOUS
  <1>2. Rank(x) \in Nat /\ Rank(y) \in Nat /\ Rank(z) \in Nat
    BY StepFacts
  <1>3. Rank(x) <= Rank(z)
    BY <1>2
  <1> HIDE DEF q
  <1>4. ASSUME NEW i \in DOMAIN q, NEW j \in DOMAIN q, i < j
        PROVE  Rank(q[i]) <= Rank(q[j]) /\ (q[i].do = "create" => Rank(q[i]) < Rank(q[j]))
    <2>1. (i = 1 /\ j = 2) \/ (i = 1 /\ j = 3) \/ (i = 2 /\ j = 3)
      BY <1>1, <1>4
    <2> QED BY <1>1, <1>3, <2>1
  <1>5. InOrder(q)
    BY <1>4 DEF InOrder
  <1> QED BY <1>5 DEF q

(* The pieces of the scripts.                                              *)
LEMMA PiecesSound ==
  /\ SoundScript(Creates) /\ Left(Creates) = CreateSteps
  /\ SoundScript(CleanUp) /\ Left(CleanUp) = FreeSteps
  /\ SoundScript(<<Stop, Free("stream"), Free("client")>>)
  /\ Left(<<Stop, Free("stream"), Free("client")>>) = {Stop, Free("stream"), Free("client")}
  /\ SoundScript(<<Stop>>) /\ Left(<<Stop>>) = {Stop}
  /\ SoundScript(<<Load>>) /\ Left(<<Load>>) = {Load}
  /\ SoundScript(<<Start>>) /\ Left(<<Start>>) = {Start}
  /\ SoundScript(<<Frames>>) /\ Left(<<Frames>>) = {Frames}
  /\ SoundScript(<<Start, Frames>>) /\ Left(<<Start, Frames>>) = {Start, Frames}
  /\ SoundScript(<<Start, Join("audio")>>)
  /\ Left(<<Start, Join("audio")>>) = {Start, Join("audio")}
  /\ SoundScript(<<Start, Join("video"), Join("audio")>>)
  /\ Left(<<Start, Join("video"), Join("audio")>>) = {Start, Join("video"), Join("audio")}
  /\ SoundScript(<< >>) /\ Left(<< >>) = {}
  <1>1. SoundScript(Creates) /\ Left(Creates) = CreateSteps
    <2>0. /\ Create("device") \in AllSteps /\ Create("streamInfo") \in AllSteps
          /\ Create("callbacks") \in AllSteps /\ Create("streamCallbacks") \in AllSteps
          /\ Create("client") \in AllSteps /\ Create("stream") \in AllSteps
      BY RankFacts DEF Resources
    <2>1. Creates \in Seq(AllSteps)
      BY <2>0 DEF Creates
    <2>2. InOrder(Creates)
      BY DEF InOrder, Creates, Rank, CreateRank, Create, Step
    <2>3. /\ DOMAIN Creates = 1..6
          /\ Creates[1] = Create("device") /\ Creates[2] = Create("streamInfo")
          /\ Creates[3] = Create("callbacks") /\ Creates[4] = Create("streamCallbacks")
          /\ Creates[5] = Create("client") /\ Creates[6] = Create("stream")
      BY DEF Creates
    <2>4. /\ \A i \in 1..6 : i = 1 \/ i = 2 \/ i = 3 \/ i = 4 \/ i = 5 \/ i = 6
          /\ 1 \in 1..6 /\ 2 \in 1..6 /\ 3 \in 1..6 /\ 4 \in 1..6 /\ 5 \in 1..6 /\ 6 \in 1..6
      OBVIOUS
    <2>5. \A x : x \in Left(Creates) <=> x \in CreateSteps
      <3>1. ASSUME NEW x \in Left(Creates) PROVE x \in CreateSteps
        BY <2>3, <2>4 DEF Left, CreateSteps, Resources
      <3>2. ASSUME NEW r \in Resources PROVE Create(r) \in Left(Creates)
        BY <2>3, <2>4 DEF Left, Resources
      <3> QED BY <3>1, <3>2 DEF CreateSteps
    <2>6. Left(Creates) = CreateSteps
      BY <2>5
    <2>7. \A x \in Left(Creates) : x.do # "free"
      BY <2>6 DEF CreateSteps, Create, Step
    <2> QED BY <2>1, <2>2, <2>6, <2>7, NoFreesSound
  <1>2. SoundScript(CleanUp) /\ Left(CleanUp) = FreeSteps
    <2>0. /\ Free("device") \in AllSteps /\ Free("streamInfo") \in AllSteps
          /\ Free("callbacks") \in AllSteps
          /\ Free("client") \in AllSteps /\ Free("stream") \in AllSteps
      BY RankFacts DEF Resources, Held
    <2>1. CleanUp \in Seq(AllSteps)
      BY <2>0 DEF CleanUp
    <2>2. InOrder(CleanUp)
      BY DEF InOrder, CleanUp, Rank, StepRank, Free, Step
    <2>3. /\ DOMAIN CleanUp = 1..5
          /\ CleanUp[1] = Free("device") /\ CleanUp[2] = Free("streamInfo")
          /\ CleanUp[3] = Free("stream") /\ CleanUp[4] = Free("client")
          /\ CleanUp[5] = Free("callbacks")
      BY DEF CleanUp
    <2>4. /\ \A i \in 1..5 : i = 1 \/ i = 2 \/ i = 3 \/ i = 4 \/ i = 5
          /\ 1 \in 1..5 /\ 2 \in 1..5 /\ 3 \in 1..5 /\ 4 \in 1..5 /\ 5 \in 1..5
      OBVIOUS
    <2>5. \A x : x \in Left(CleanUp) <=> x \in FreeSteps
      <3>1. ASSUME NEW x \in Left(CleanUp) PROVE x \in FreeSteps
        BY <2>3, <2>4 DEF Left, FreeSteps, Held, Resources
      <3>2. ASSUME NEW r \in Held PROVE Free(r) \in Left(CleanUp)
        BY <2>3, <2>4 DEF Left, Held, Resources
      <3> QED BY <3>1, <3>2 DEF FreeSteps
    <2>6. Left(CleanUp) = FreeSteps
      BY <2>5
    <2>7. FreedBefore(CleanUp)
      BY DEF FreedBefore, CleanUp, MadeFrom, Free, Step
    <2> QED BY <2>1, <2>2, <2>6, <2>7 DEF SoundScript
  <1>3. /\ SoundScript(<<Stop, Free("stream"), Free("client")>>)
        /\ Left(<<Stop, Free("stream"), Free("client")>>) = {Stop, Free("stream"), Free("client")}
    <2> DEFINE q == <<Stop, Free("stream"), Free("client")>>
    <2>0. Stop \in AllSteps /\ Free("stream") \in AllSteps /\ Free("client") \in AllSteps
      BY RankFacts DEF Resources, Held
    <2>1. q \in Seq(AllSteps) /\ Left(q) = {Stop, Free("stream"), Free("client")}
      BY <2>0, ShortScripts
    <2>2. InOrder(q)
      <3>1. /\ Rank(Stop) <= Rank(Free("stream")) /\ Rank(Free("stream")) <= Rank(Free("client"))
            /\ Stop.do # "create" /\ Free("stream").do # "create"
        <4>1. Rank(Stop) = 11 /\ Rank(Free("stream")) = 12 /\ Rank(Free("client")) = 12
          BY RankFacts DEF Resources, Held
        <4>2. Stop.do # "create" /\ Free("stream").do # "create"
          BY DEF Stop, Free, Step
        <4> QED BY <4>1, <4>2
      <3> QED BY <2>0, <3>1, ShortInOrder
    <2>4. FreedBefore(q)
      <3>1. q[1] = Stop /\ q[2] = Free("stream") /\ q[3] = Free("client") /\ DOMAIN q = 1..3
        OBVIOUS
      <3>2. \A n \in Resources : /\ Stop # Free(n)
                                 /\ Free("stream") = Free(n) => n = "stream"
                                 /\ Free("client") = Free(n) => n = "client"
        BY DEF Free, Stop, Step
      <3> HIDE DEF q
      <3>3. ASSUME NEW r \in Resources, NEW n \in Resources, NEW i \in DOMAIN q,
                   <<r, n>> \in MadeFrom, q[i] = Free(n)
            PROVE  \E j \in 1..(i - 1) : q[j] = Free(r)
        <4>1. i = 3 /\ n = "client" /\ r = "stream"
          <5>1. i = 1 \/ i = 2 \/ i = 3
            BY <3>1, <3>3
          <5>2. n \in {"callbacks", "client"} /\ (n = "client" => r = "stream")
            BY <3>3 DEF MadeFrom
          <5> QED BY <3>1, <3>2, <3>3, <5>1, <5>2
        <4>2. 2 \in 1..(i - 1) /\ q[2] = Free(r)
          BY <3>1, <4>1
        <4> QED BY <4>2
      <3> QED BY <3>3 DEF FreedBefore
    <2> QED BY <2>1, <2>2, <2>4 DEF SoundScript
  <1>4. ASSUME NEW x \in AllSteps, x.do # "free"
        PROVE  SoundScript(<<x>>) /\ Left(<<x>>) = {x}
    <2>1. <<x>> \in Seq(AllSteps) /\ InOrder(<<x>>)
      BY DEF InOrder
    <2>2. Left(<<x>>) = {x}
      BY ShortScripts
    <2> QED BY <1>4, <2>1, <2>2, NoFreesSound
  <1>5. ASSUME NEW x \in AllSteps, NEW y \in AllSteps, x.do \notin {"free", "create"},
               y.do # "free", Rank(x) <= Rank(y)
        PROVE  SoundScript(<<x, y>>) /\ Left(<<x, y>>) = {x, y}
    <2> DEFINE q == <<x, y>>
    <2>1. q \in Seq(AllSteps) /\ DOMAIN q = 1..2 /\ Left(q) = {x, y} /\ q[1] = x /\ q[2] = y
      BY ShortScripts
    <2> HIDE DEF q
    <2>2. \A i, j \in DOMAIN q : i < j => i = 1 /\ j = 2
      BY <2>1
    <2>3. InOrder(q)
      BY <1>5, <2>1, <2>2 DEF InOrder
    <2>4. \A w \in Left(q) : w.do # "free"
      BY <1>5, <2>1
    <2>5. SoundScript(q)
      BY <2>1, <2>3, <2>4, NoFreesSound
    <2> QED BY <2>1, <2>5 DEF q
  <1>6. /\ SoundScript(<<Start, Join("video"), Join("audio")>>)
        /\ Left(<<Start, Join("video"), Join("audio")>>) = {Start, Join("video"), Join("audio")}
    <2> DEFINE q == <<Start, Join("video"), Join("audio")>>
    <2>1. Start \in AllSteps /\ Join("video") \in AllSteps /\ Join("audio") \in AllSteps
      BY RankFacts
    <2>2. q \in Seq(AllSteps) /\ Left(q) = {Start, Join("video"), Join("audio")}
      BY <2>1, ShortScripts
    <2>3. InOrder(q)
      <3>1. /\ Rank(Start) <= Rank(Join("video")) /\ Rank(Join("video")) <= Rank(Join("audio"))
            /\ Start.do # "create" /\ Join("video").do # "create"
        <4>1. Rank(Start) = 7 /\ Rank(Join("video")) = 10 /\ Rank(Join("audio")) = 10
          BY RankFacts
        <4>2. Start.do # "create" /\ Join("video").do # "create"
          BY DEF Start, Join, Step
        <4> QED BY <4>1, <4>2
      <3> QED BY <2>1, <3>1, ShortInOrder
    <2>4. \A x \in Left(q) : x.do # "free"
      BY <2>2, RankFacts
    <2> HIDE DEF q
    <2>5. SoundScript(q)
      BY <2>2, <2>3, <2>4, NoFreesSound
    <2> QED BY <2>2, <2>5 DEF q
  <1>7. SoundScript(<< >>) /\ Left(<< >>) = {}
    BY DEF SoundScript, InOrder, FreedBefore, Left
  <1>8. /\ SoundScript(<<Stop>>) /\ Left(<<Stop>>) = {Stop}
        /\ SoundScript(<<Load>>) /\ Left(<<Load>>) = {Load}
        /\ SoundScript(<<Start>>) /\ Left(<<Start>>) = {Start}
        /\ SoundScript(<<Frames>>) /\ Left(<<Frames>>) = {Frames}
    BY <1>4, RankFacts
  <1>9. /\ SoundScript(<<Start, Frames>>) /\ Left(<<Start, Frames>>) = {Start, Frames}
        /\ SoundScript(<<Start, Join("audio")>>)
        /\ Left(<<Start, Join("audio")>>) = {Start, Join("audio")}
    <2>1. Rank(Start) <= Rank(Frames) /\ Rank(Start) <= Rank(Join("audio"))
      <3>1. Rank(Start) = 7 /\ Rank(Frames) = 9 /\ Rank(Join("audio")) = 10
        BY RankFacts
      <3> QED BY <3>1
    <2>2. Start \in AllSteps /\ Frames \in AllSteps /\ Join("audio") \in AllSteps
      BY RankFacts
    <2>3. Start.do \notin {"free", "create"} /\ Frames.do # "free" /\ Join("audio").do # "free"
      BY DEF Start, Frames, Join, Step
    <2> QED BY <1>5, <2>1, <2>2, <2>3
  <1> QED BY <1>1, <1>2, <1>3, <1>6, <1>7, <1>8, <1>9

(* Two scripts that a rank separates, one after the other.                 *)
Below(x, k) == Rank(x) <= k /\ (x.do = "create" => Rank(x) < k)
Above(y, k) == k <= Rank(y)

LEMMA ConcatAt ==
  ASSUME NEW p, NEW q, NEW k \in Nat, SoundScript(p), SoundScript(q),
         \A x \in Left(p) : Below(x, k), \A y \in Left(q) : Above(y, k)
  PROVE  SoundScript(p \o q) /\ Left(p \o q) = Left(p) \cup Left(q)
  <1>1. Left(p) \subseteq AllSteps /\ Left(q) \subseteq AllSteps
    BY DEF SoundScript, Left
  <1>2. ASSUME NEW x \in Left(p), NEW y \in Left(q)
        PROVE  Rank(x) <= Rank(y) /\ (x.do = "create" => Rank(x) < Rank(y))
    <2>1. Rank(x) \in Nat /\ Rank(y) \in Nat
      BY <1>1, StepFacts
    <2>2. Below(x, k) /\ Above(y, k)
      OBVIOUS
    <2> QED BY <2>1, <2>2 DEF Below, Above
  <1> QED BY <1>2, ConcatSound

(* The ranks of the pieces.                                                *)
LEMMA PieceRanks ==
  /\ \A x \in CreateSteps : Below(x, 7) /\ Below(x, 9) /\ Below(x, 11) /\ Above(x, 0)
  /\ \A x \in FreeSteps : Below(x, 12) /\ Above(x, 11) /\ Above(x, 12)
  /\ Below(Load, 0) /\ Below(Load, 7) /\ Below(Load, 11)
  /\ Above(Start, 7) /\ Below(Start, 11)
  /\ Above(Frames, 7) /\ Above(Frames, 9) /\ Below(Frames, 11)
  /\ \A t \in {"video", "audio"} : Above(Join(t), 7) /\ Below(Join(t), 11)
  /\ Above(Stop, 11) /\ Below(Stop, 12)
  <1>1. ASSUME NEW r \in Resources
        PROVE  /\ Below(Create(r), 7) /\ Below(Create(r), 9) /\ Below(Create(r), 11)
               /\ Above(Create(r), 0)
    <2>1. Rank(Create(r)) \in 1..6
      BY RankFacts
    <2> QED BY <2>1 DEF Below, Above
  <1>2. ASSUME NEW r \in Held
        PROVE  Below(Free(r), 12) /\ Above(Free(r), 11) /\ Above(Free(r), 12)
    <2>1. Rank(Free(r)) = 12 /\ Free(r).do # "create"
      BY RankFacts
    <2> QED BY <2>1 DEF Below, Above
  <1>3. ASSUME NEW t \in {"video", "audio"}
        PROVE  Above(Join(t), 7) /\ Below(Join(t), 11)
    <2>1. Rank(Join(t)) = 10
      BY RankFacts
    <2> QED BY <2>1 DEF Below, Above
  <1>4. /\ Rank(Start) = 7 /\ Rank(Frames) = 9 /\ Rank(Stop) = 11 /\ Rank(Load) = 0
    BY RankFacts
  <1>5. Stop.do # "create" /\ Load.do # "create"
    BY DEF Load, Stop, Step
  <1>6. /\ Below(Load, 0) /\ Below(Load, 7) /\ Below(Load, 11)
        /\ Above(Start, 7) /\ Below(Start, 11)
        /\ Above(Frames, 7) /\ Above(Frames, 9) /\ Below(Frames, 11)
        /\ Above(Stop, 11) /\ Below(Stop, 12)
    <2>1. Below(Load, 0) /\ Below(Load, 7) /\ Below(Load, 11)
      BY <1>4, <1>5 DEF Below
    <2>2. Above(Start, 7) /\ Below(Start, 11)
      BY <1>4 DEF Below, Above
    <2>3. Above(Frames, 7) /\ Above(Frames, 9) /\ Below(Frames, 11)
      BY <1>4 DEF Below, Above
    <2>4. Above(Stop, 11) /\ Below(Stop, 12)
      BY <1>4, <1>5 DEF Below, Above
    <2> QED BY <2>1, <2>2, <2>3, <2>4
  <1> QED BY <1>1, <1>2, <1>3, <1>6 DEF CreateSteps, FreeSteps

(* The scripts of the programs and of their threads.                       *)
LEMMA ScriptsSound ==
  /\ SoundScript(Deinit) /\ Left(Deinit) = {Stop} \cup FreeSteps
  /\ SoundScript(TearDown) /\ Left(TearDown) = {Stop} \cup FreeSteps
  /\ SoundScript(KvsPlayerStart)
  /\ Left(KvsPlayerStart) = CreateSteps \cup {Start, Join("video"), Join("audio")}
  /\ SoundScript(MediaCreates \o <<Frames>>)
  /\ Left(MediaCreates \o <<Frames>>) = CreateSteps \cup {Frames}
  /\ SoundScript(VideoRealtimeMain)
  /\ Left(VideoRealtimeMain) = CreateSteps \cup {Frames, Stop} \cup FreeSteps
  /\ SoundScript(VideoOfflineMain)
  /\ Left(VideoOfflineMain) = CreateSteps \cup {Start, Frames, Stop} \cup FreeSteps
  /\ SoundScript(AudioOnlyMain)
  /\ Left(AudioOnlyMain) =
       {Load, Start, Join("audio"), Stop} \cup CreateSteps \cup FreeSteps
  /\ SoundScript(AudioVideoMain)
  /\ Left(AudioVideoMain) =
       {Load, Start, Join("video"), Join("audio"), Stop} \cup CreateSteps \cup FreeSteps
  /\ SoundScript(AudioVideoNewMain)
  /\ Left(AudioVideoNewMain) =
       {Load, Start, Join("video"), Join("audio"), Stop} \cup CreateSteps \cup FreeSteps
  <1> DEFINE load   == <<Load>>
             stop   == <<Stop>>
             stops  == <<Stop, Free("stream"), Free("client")>>
             frames == <<Frames>>
             plays  == <<Start, Frames>>
             audio  == <<Start, Join("audio")>>
             joins  == <<Start, Join("video"), Join("audio")>>
  <1>s. /\ SoundScript(load) /\ SoundScript(stop) /\ SoundScript(stops) /\ SoundScript(frames)
        /\ SoundScript(plays) /\ SoundScript(audio) /\ SoundScript(joins)
        /\ SoundScript(Creates) /\ SoundScript(CleanUp)
    BY PiecesSound
  <1>l. /\ Left(load) = {Load} /\ Left(stop) = {Stop}
        /\ Left(stops) = {Stop, Free("stream"), Free("client")}
        /\ Left(frames) = {Frames} /\ Left(plays) = {Start, Frames}
        /\ Left(audio) = {Start, Join("audio")}
        /\ Left(joins) = {Start, Join("video"), Join("audio")}
        /\ Left(Creates) = CreateSteps /\ Left(CleanUp) = FreeSteps
    BY PiecesSound
  <1>d. /\ Deinit = stop \o CleanUp /\ TearDown = stops \o CleanUp
        /\ KvsPlayerStart = Creates \o joins
        /\ MediaCreates \o <<Frames>> = Creates \o frames
        /\ VideoRealtimeMain = (Creates \o frames) \o TearDown
        /\ VideoOfflineMain = (Creates \o plays) \o TearDown
        /\ AudioOnlyMain = ((load \o Creates) \o audio) \o TearDown
        /\ AudioVideoMain = ((load \o Creates) \o joins) \o TearDown
        /\ AudioVideoNewMain = ((load \o Creates) \o joins) \o Deinit
    BY Zenon DEF Deinit, TearDown, KvsPlayerStart, MediaCreates, VideoRealtimeMain, VideoOfflineMain,
           AudioOnlyMain, AudioVideoMain, AudioVideoNewMain, KVSProducer_Deinit
  <1>f. Free("stream") \in FreeSteps /\ Free("client") \in FreeSteps
    BY DEF FreeSteps, Held, Resources
  <1> HIDE DEF load, stop, stops, frames, plays, audio, joins
  <1>c. \A x \in Left(Creates) : Below(x, 7) /\ Below(x, 9) /\ Below(x, 11) /\ Above(x, 0)
    BY <1>l, PieceRanks
  <1>j. /\ \A y \in Left(plays) : Above(y, 7) /\ Below(y, 11)
        /\ \A y \in Left(audio) : Above(y, 7) /\ Below(y, 11)
        /\ \A y \in Left(joins) : Above(y, 7) /\ Below(y, 11)
        /\ \A y \in Left(frames) : Above(y, 9) /\ Below(y, 11)
    BY <1>l, PieceRanks
  <1>1. SoundScript(Deinit) /\ Left(Deinit) = {Stop} \cup FreeSteps
    <2>1. (\A x \in Left(stop) : Below(x, 12)) /\ \A y \in Left(CleanUp) : Above(y, 12)
      BY <1>l, PieceRanks
    <2>2. SoundScript(Deinit) /\ Left(Deinit) = Left(stop) \cup Left(CleanUp)
      BY <2>1, <1>s, <1>d, ConcatAt
    <2> QED BY <2>2, <1>l
  <1>2. SoundScript(TearDown) /\ Left(TearDown) = {Stop} \cup FreeSteps
    <2>1. (\A x \in Left(stops) : Below(x, 12)) /\ \A y \in Left(CleanUp) : Above(y, 12)
      BY <1>l, <1>f, PieceRanks
    <2>2. SoundScript(TearDown) /\ Left(TearDown) = Left(stops) \cup Left(CleanUp)
      BY <2>1, <1>s, <1>d, ConcatAt
    <2> QED BY <2>2, <1>f, <1>l
  <1>t. (\A y \in Left(TearDown) : Above(y, 11)) /\ \A y \in Left(Deinit) : Above(y, 11)
    BY <1>1, <1>2, PieceRanks
  <1>3. ASSUME NEW q, q = joins \/ q = plays
        PROVE  /\ SoundScript(Creates \o q) /\ Left(Creates \o q) = CreateSteps \cup Left(q)
               /\ \A x \in Left(Creates \o q) : Below(x, 11)
    <2>1. SoundScript(Creates \o q) /\ Left(Creates \o q) = CreateSteps \cup Left(q)
      BY <1>3, <1>c, <1>j, <1>s, <1>l, ConcatAt
    <2> QED BY <2>1, <1>3, <1>c, <1>j, <1>l
  <1>4. /\ SoundScript(Creates \o frames) /\ Left(Creates \o frames) = CreateSteps \cup {Frames}
        /\ \A x \in Left(Creates \o frames) : Below(x, 11)
    <2>1. SoundScript(Creates \o frames) /\ Left(Creates \o frames) = CreateSteps \cup {Frames}
      BY <1>c, <1>j, <1>s, <1>l, ConcatAt
    <2> QED BY <2>1, <1>c, <1>j, <1>l
  <1>5. SoundScript(VideoRealtimeMain)
        /\ Left(VideoRealtimeMain) = CreateSteps \cup {Frames, Stop} \cup FreeSteps
    <2> DEFINE p == Creates \o frames
    <2>1. SoundScript(p \o TearDown) /\ Left(p \o TearDown) = Left(p) \cup Left(TearDown)
      BY <1>2, <1>4, <1>t, ConcatAt
    <2>2. Left(p) = CreateSteps \cup {Frames} /\ p \o TearDown = VideoRealtimeMain
      BY <1>4, <1>d
    <2> HIDE DEF p
    <2> QED BY <1>2, <2>1, <2>2
  <1>6. SoundScript(VideoOfflineMain)
        /\ Left(VideoOfflineMain) = CreateSteps \cup {Start, Frames, Stop} \cup FreeSteps
    <2> DEFINE p == Creates \o plays
    <2>1. SoundScript(p \o TearDown) /\ Left(p \o TearDown) = Left(p) \cup Left(TearDown)
      BY <1>2, <1>3, <1>t, ConcatAt
    <2>2. Left(p) = CreateSteps \cup {Start, Frames} /\ p \o TearDown = VideoOfflineMain
      BY <1>3, <1>l, <1>d
    <2> HIDE DEF p
    <2> QED BY <1>2, <2>1, <2>2
  <1> DEFINE setup == load \o Creates
  <1>7. /\ SoundScript(setup) /\ Left(setup) = {Load} \cup CreateSteps
        /\ \A x \in Left(setup) : Below(x, 7) /\ Below(x, 11)
    <2>1. \A x \in Left(load) : Below(x, 0) /\ Below(x, 7) /\ Below(x, 11)
      BY <1>l, PieceRanks
    <2>2. SoundScript(setup) /\ Left(setup) = Left(load) \cup Left(Creates)
      BY <2>1, <1>c, <1>s, ConcatAt
    <2> QED BY <2>1, <2>2, <1>c, <1>l
  <1>8. /\ AudioOnlyMain = (setup \o audio) \o TearDown
        /\ AudioVideoMain = (setup \o joins) \o TearDown
        /\ AudioVideoNewMain = (setup \o joins) \o Deinit
    BY <1>d
  <1> HIDE DEF setup
  <1>9. ASSUME NEW q, NEW d, q = audio \/ q = joins, d = TearDown \/ d = Deinit
        PROVE  /\ SoundScript((setup \o q) \o d)
               /\ Left((setup \o q) \o d) =
                    (({Load} \cup CreateSteps) \cup Left(q)) \cup ({Stop} \cup FreeSteps)
    <2> DEFINE p == setup \o q
    <2>1. SoundScript(p) /\ Left(p) = Left(setup) \cup Left(q)
      BY <1>7, <1>9, <1>j, <1>s, ConcatAt
    <2>2. \A x \in Left(p) : Below(x, 11)
      BY <1>7, <1>9, <1>j, <2>1
    <2>3. SoundScript(d) /\ Left(d) = {Stop} \cup FreeSteps /\ \A y \in Left(d) : Above(y, 11)
      BY <1>1, <1>2, <1>9, <1>t
    <2> HIDE DEF p
    <2>4. SoundScript(p \o d) /\ Left(p \o d) = Left(p) \cup Left(d)
      BY <2>1, <2>2, <2>3, ConcatAt
    <2> QED BY <1>7, <2>1, <2>3, <2>4 DEF p
  <1>10. SoundScript(AudioOnlyMain)
         /\ Left(AudioOnlyMain) =
              {Load, Start, Join("audio"), Stop} \cup CreateSteps \cup FreeSteps
    <2>1. /\ SoundScript(AudioOnlyMain)
          /\ Left(AudioOnlyMain) =
               (({Load} \cup CreateSteps) \cup Left(audio)) \cup ({Stop} \cup FreeSteps)
      BY <1>8, <1>9
    <2> QED BY <2>1, <1>l
  <1>11. ASSUME NEW m, m = AudioVideoMain \/ m = AudioVideoNewMain
         PROVE  /\ SoundScript(m)
                /\ Left(m) = {Load, Start, Join("video"), Join("audio"), Stop}
                               \cup CreateSteps \cup FreeSteps
    <2>1. /\ SoundScript(m)
          /\ Left(m) =
               (({Load} \cup CreateSteps) \cup Left(joins)) \cup ({Stop} \cup FreeSteps)
      BY <1>8, <1>9, <1>11
    <2> QED BY <2>1, <1>l
  <1>12. SoundScript(KvsPlayerStart)
         /\ Left(KvsPlayerStart) = CreateSteps \cup {Start, Join("video"), Join("audio")}
    BY <1>3, <1>d, <1>l
  <1>13. SoundScript(MediaCreates \o <<Frames>>)
         /\ Left(MediaCreates \o <<Frames>>) = CreateSteps \cup {Frames}
    BY <1>4, <1>d
  <1> QED BY <1>1, <1>2, <1>5, <1>6, <1>10, <1>11, <1>12, <1>13

-----------------------------------------------------------------------------
(* Frees stay in order when a step that is no free leaves or enters a      *)
(* script.                                                                 *)
LEMMA FreedBeforeMoves ==
  ASSUME NEW q \in Seq(AllSteps), FreedBefore(q)
  PROVE  /\ q # << >> /\ Head(q).do # "free" => FreedBefore(Tail(q))
         /\ FreedBefore(<<Put>> \o q)
  <1>1. ASSUME q # << >>, Head(q).do # "free"
        PROVE  FreedBefore(Tail(q))
    <2> SUFFICES ASSUME NEW r \in Resources, NEW n \in Resources, NEW i \in DOMAIN Tail(q),
                        <<r, n>> \in MadeFrom, Tail(q)[i] = Free(n)
                 PROVE  \E j \in 1..(i - 1) : Tail(q)[j] = Free(r)
      BY DEF FreedBefore
    <2>1. i \in Nat /\ i + 1 \in DOMAIN q /\ q[i + 1] = Free(n) /\ Len(q) \in Nat
          /\ DOMAIN q = 1..Len(q) /\ DOMAIN Tail(q) = 1..(Len(q) - 1)
      BY <1>1, TailFacts
    <2>2. PICK j \in 1..((i + 1) - 1) : q[j] = Free(r)
      BY <2>1 DEF FreedBefore
    <2>3. j # 1
      BY <1>1, <2>2, TailFacts DEF Free, Step
    <2>4. j - 1 \in DOMAIN Tail(q) /\ j - 1 \in 1..(i - 1) /\ (j - 1) + 1 = j
      BY <2>1, <2>2, <2>3
    <2>5. Tail(q)[j - 1] = q[j]
      BY <1>1, <2>4, TailFacts
    <2> QED BY <2>2, <2>4, <2>5
  <1>2. FreedBefore(<<Put>> \o q)
    <2> DEFINE p == <<Put>> \o q
    <2>1. /\ DOMAIN p = 1..(Len(q) + 1) /\ Len(q) \in Nat /\ p[1] = Put /\ DOMAIN q = 1..Len(q)
          /\ \A i \in 2..(Len(q) + 1) : i - 1 \in DOMAIN q /\ p[i] = q[i - 1]
      BY PushFacts, RankFacts
    <2>2. \A n \in Resources : Put # Free(n)
      BY DEF Put, Free, Step
    <2> HIDE DEF p
    <2>3. ASSUME NEW r \in Resources, NEW n \in Resources, NEW i \in DOMAIN p,
                 <<r, n>> \in MadeFrom, p[i] = Free(n)
          PROVE  \E j \in 1..(i - 1) : p[j] = Free(r)
      <3>1. i # 1
        BY <2>1, <2>2, <2>3
      <3>2. i \in 2..(Len(q) + 1)
        BY <2>1, <3>1
      <3>3. i - 1 \in DOMAIN q /\ q[i - 1] = Free(n)
        BY <2>1, <2>3, <3>2
      <3>4. PICK j \in 1..((i - 1) - 1) : q[j] = Free(r)
        BY <2>3, <3>3 DEF FreedBefore
      <3>5. j + 1 \in 2..(Len(q) + 1) /\ j + 1 \in 1..(i - 1) /\ (j + 1) - 1 = j
        BY <2>1, <3>2, <3>4
      <3>6. p[j + 1] = q[j]
        BY <2>1, <3>5
      <3> QED BY <3>4, <3>5, <3>6
    <2>4. FreedBefore(p)
      BY <2>3 DEF FreedBefore
    <2> QED BY <2>4 DEF p
  <1> QED BY <1>1, <1>2

(* The invariant without its parts on types, the flag and the media.       *)
StructInv == Scripts /\ SettingUp /\ Pointers /\ FreesInOrder /\ Joined /\ Ownership

LEMMA SettingUpKept ==
  ASSUME SettingUp, \A r \in Resources : ToCreate(r)' <=> ToCreate(r),
         UNCHANGED <<ptr, session, alive>>
  PROVE  SettingUp'
  <1>1. "device" \in Resources
    BY DEF Resources
  <1>2. \A r \in Resources : ToCreate(r)' => ToCreate("device")' \/ session' > 0
    BY <1>1 DEF SettingUp
  <1>3. ToCreate("device")' => \A r \in Resources : ToCreate(r)'
    BY <1>1 DEF SettingUp
  <1>4. ASSUME NEW r \in Resources, NEW n \in Resources, <<r, n>> \in MadeFrom
        PROVE  /\ ToCreate(n)' => ToCreate(r)'
               /\ ToCreate(r)' /\ ~ToCreate(n)' => ptr'[n] \in {0, session'}
               /\ ToCreate(r)' /\ ~ToCreate("device")' => <<r, session'>> \notin alive'
    BY <1>1, <1>4 DEF SettingUp
  <1> QED BY <1>2, <1>3, <1>4 DEF SettingUp

(* Nothing, or everything, is left to create.                              *)
LEMMA SetUp ==
  ASSUME \/ \A r \in Resources : ~ToCreate(r)'
         \/ \A r \in Resources : ToCreate(r)'
  PROVE  SettingUp'
  <1>1. "device" \in Resources
    BY DEF Resources
  <1> QED BY <1>1 DEF SettingUp

(* Main does a step that creates, frees and starts nothing.                *)
LEMMA MainKeeps ==
  ASSUME ProgramTypes, StructInv, NEW q, todo["main"] # << >>,
         Head(todo["main"]).do \notin {"create", "free", "start"},
         \/ /\ q = Tail(todo["main"])
            /\ Head(todo["main"]).do = "join" => todo[Head(todo["main"]).what] = << >>
         \/ q = <<Put>> \o todo["main"] /\ Head(todo["main"]) = Frames,
         todo' = [todo EXCEPT !["main"] = q],
         UNCHANGED <<program, ptr, alive, session, streamHandle, handled>>
  PROVE  StructInv'
  <1> DEFINE m == todo["main"]
  <1>1. /\ m \in Seq(AllSteps) /\ Head(m) \in AllSteps /\ Head(m) \in Left(m)
        /\ todo'["main"] = q /\ InOrder(m)
        /\ \A t \in {"video", "audio"} : todo'[t] = todo[t]
    BY TailFacts DEF ProgramTypes, StructInv, Scripts, Actors
  <1>2. Put \in AllSteps /\ Put.do = "put"
    BY RankFacts
  <1>3. q \in Seq(AllSteps) /\ InOrder(q)
    <2>1. CASE q = Tail(m)
      BY <1>1, <2>1, TailFacts, TailInOrder
    <2>2. CASE q = <<Put>> \o m /\ Head(m) = Frames
      <3>1. \A y \in Left(m) : Rank(Put) <= Rank(y)
        <4> SUFFICES ASSUME NEW y \in Left(m) PROVE Rank(Put) <= Rank(y)
          OBVIOUS
        <4>1. Rank(Put) = 8 /\ Rank(Frames) = 9
          BY RankFacts
        <4>2. y = Frames \/ y \in Left(Tail(m))
          BY <1>1, <2>2, TailFacts
        <4>3. Rank(y) \in Nat
          BY <1>1, TailFacts, StepFacts
        <4>4. y \in Left(Tail(m)) => Rank(Frames) <= Rank(y)
          BY <1>1, <2>2, TailInOrder
        <4> QED BY <4>1, <4>2, <4>3, <4>4
      <3> QED BY <1>1, <1>2, <2>2, <3>1, PushFacts, PushInOrder
    <2> QED BY <2>1, <2>2
  <1>4. /\ \A x \in Left(q) : x \in Left(m) \/ (x = Put /\ Frames \in Left(m))
        /\ \A x \in Left(m) : x = Head(m) \/ x \in Left(q)
    <2>1. CASE q = Tail(m)
      BY <1>1, <2>1, TailFacts
    <2>2. CASE q = <<Put>> \o m /\ Head(m) = Frames
      BY <1>1, <1>2, <2>2, PushFacts
    <2> QED BY <2>1, <2>2
  <1>5. \A r \in Resources : Create(r) \in Left(q) <=> Create(r) \in Left(m)
    BY <1>2, <1>4, RankFacts
  <1>6. \A r \in Held : Free(r) \in Left(q) <=> Free(r) \in Left(m)
    BY <1>2, <1>4, RankFacts
  <1>7. program # "MediaProvider"
    BY <1>1, RankFacts DEF StructInv, Scripts
  <1>8. \A r \in Resources : ToCreate(r)' <=> ToCreate(r)
    BY <1>1, <1>5, <1>7 DEF ToCreate, Creator
  <1> HIDE DEF m
  <1>9. Scripts'
    <2>1. InOrder(todo'["main"]) /\ InOrder(todo'[Creator'])
      BY <1>1, <1>3, <1>7 DEF Creator
    <2>2. Mark \notin Left(todo'["main"])
      <3>1. Mark \notin Left(m) /\ Mark # Put
        BY RankFacts DEF StructInv, Scripts, m
      <3> QED BY <1>1, <1>4, <3>1
    <2>3. program' \in Copying \cup Services => Left(todo'["main"]) \cap {Put, Frames} = {}
      <3>1. program \in Copying \cup Services => Left(m) \cap {Put, Frames} = {}
        BY DEF StructInv, Scripts, m
      <3> QED BY <1>1, <1>4, <3>1
    <2>4. ASSUME program' \in Copying, Start \in Left(todo'["main"]), NEW t \in SendingThreads'
          PROVE  Join(t) \in Left(todo'["main"])
      <3>1. Start \in Left(m) /\ Start # Head(m)
        BY <1>1, <1>2, <1>4, <2>4, RankFacts DEF m
      <3>2. Join(t) \in Left(m) /\ t \in {"video", "audio"}
        BY <2>4, <3>1 DEF StructInv, Scripts, m, SendingThreads, Copying
      <3>3. Rank(Head(m)) <= Rank(Start)
        BY <1>1, <3>1, TailFacts, TailInOrder DEF m
      <3>4. Rank(Join(t)) = 10 /\ Rank(Start) = 7
        BY <3>2, RankFacts
      <3>5. Join(t) # Head(m)
        BY <3>3, <3>4
      <3> QED BY <1>1, <1>4, <3>2, <3>5
    <2> QED BY <1>1, <1>7, <2>1, <2>2, <2>3, <2>4 DEF StructInv, Scripts, Creator
  <1>10. SettingUp'
    BY <1>8, SettingUpKept DEF StructInv
  <1>11. Pointers'
    BY DEF StructInv, Pointers
  <1>12. FreesInOrder'
    <2>1. FreedBefore(m)
      BY DEF FreedBefore, StructInv, FreesInOrder, At, m
    <2>2. FreedBefore(q)
      BY <1>1, <2>1, FreedBeforeMoves DEF m
    <2> QED BY <1>1, <2>2 DEF FreedBefore, FreesInOrder
  <1>13. Joined'
    <2> SUFFICES ASSUME program \in Copying, NEW t \in {"video", "audio"}, todo[t] # << >>
                 PROVE  /\ Join(t) \in Left(q)
                        /\ \A x \in Left(q) : Rank(Start) <= Rank(x)
                        /\ streamHandle = ptr["stream"]
      BY <1>1 DEF Joined
    <2>1. /\ Join(t) \in Left(m) /\ \A x \in Left(m) : Rank(Start) <= Rank(x)
          /\ streamHandle = ptr["stream"]
      BY DEF StructInv, Joined, m
    <2>2. Frames \notin Left(m) /\ Put \notin Left(m)
      BY DEF StructInv, Scripts, m
    <2>3. Join(t) # Head(m)
      <3>1. ASSUME Join(t) = Head(m)
            PROVE  FALSE
        <4>1. Head(m).do = "join" /\ Head(m).what = t
          BY <3>1, RankFacts
        <4>2. Head(m) # Frames
          BY <1>1, <2>2
        <4> QED BY <4>1, <4>2 DEF m
      <3> QED BY <3>1
    <2> QED BY <1>4, <2>1, <2>2, <2>3
  <1>14. Ownership'
    <2>1. (Tidy' <=> Tidy) /\ (Stopping' <=> Stopping)
      BY DEF Tidy, Stopping, StartedTwice
    <2>2. program' \in Samples => \A r \in Held : Free(r) \in Left(todo'["main"])
      <3>1. program \in Samples => \A r \in Held : Free(r) \in Left(m)
        BY DEF StructInv, Ownership, At, m
      <3> QED BY <1>1, <1>6, <3>1
    <2>3. Stopping' => \A r \in Held : ptr'[r] = 0 \/ Free(r) \in Left(todo'["main"])
      BY <1>1, <1>6, <2>1 DEF StructInv, Ownership, m
    <2>4. Tidy' => \A r \in Held : ToCreate(r)' => ptr'[r] = 0
      <3>1. Held \subseteq Resources
        BY DEF Held
      <3> QED BY <1>8, <2>1, <3>1 DEF StructInv, Ownership
    <2>5. Stopping' /\ program' = "KvsService" => \A r \in Resources : ~ToCreate(r)'
      BY <1>8, <2>1 DEF StructInv, Ownership
    <2>6. program' \in Checked =>
            /\ \A s \in Nat : <<"streamCallbacks", s>> \in alive' => ptr'["callbacks"] = s
            /\ ToCreate("streamCallbacks")' /\ ~ToCreate("callbacks")' => ptr'["callbacks"] = session'
      BY <1>8 DEF StructInv, Ownership, Resources
    <2> QED BY <2>1, <2>2, <2>3, <2>4, <2>5, <2>6 DEF StructInv, Ownership
  <1> QED BY <1>9, <1>10, <1>11, <1>12, <1>13, <1>14 DEF StructInv

(* A sample gives up and goes to its CleanUp label.                        *)
LEMMA MainAborts ==
  ASSUME ProgramTypes, StructInv, program \in Samples, todo["main"] # << >>,
         Head(todo["main"]).do \notin {"free", "start", "join"},
         todo' = [todo EXCEPT !["main"] = CleanUp],
         UNCHANGED <<program, ptr, alive, session, streamHandle, handled>>
  PROVE  StructInv'
  <1> DEFINE m == todo["main"]
  <1>1. /\ m \in Seq(AllSteps) /\ Head(m) \in AllSteps /\ Head(m) \in Left(m)
        /\ todo'["main"] = CleanUp /\ InOrder(m)
        /\ \A t \in {"video", "audio"} : todo'[t] = todo[t]
    BY TailFacts DEF ProgramTypes, StructInv, Scripts, Actors
  <1>2. Left(todo'["main"]) = FreeSteps /\ InOrder(CleanUp) /\ FreedBefore(CleanUp)
    BY <1>1, PiecesSound DEF SoundScript
  <1>3. \A x \in FreeSteps : x.do = "free"
    BY RankFacts DEF FreeSteps
  <1>4. /\ Mark \notin FreeSteps /\ Put \notin FreeSteps /\ Frames \notin FreeSteps
        /\ Start \notin FreeSteps /\ \A r \in Resources : Create(r) \notin FreeSteps
    BY <1>3, RankFacts
  <1>5. program # "MediaProvider" /\ program \notin Services
    BY DEF Samples, Services
  <1>6. \A r \in Resources : ~ToCreate(r)'
    BY <1>1, <1>2, <1>4, <1>5 DEF ToCreate, Creator
  <1>7. Scripts'
    BY <1>1, <1>2, <1>4, <1>5 DEF StructInv, Scripts, Creator
  <1>8. FreesInOrder'
    BY <1>1, <1>2 DEF FreesInOrder, FreedBefore
  <1>9. Joined'
    <2> SUFFICES ASSUME program \in Copying, NEW t \in {"video", "audio"}, todo[t] # << >>
                 PROVE  FALSE
      BY <1>1 DEF Joined
    <2>1. Join(t) \in Left(m) /\ \A x \in Left(m) : Rank(Start) <= Rank(x)
      BY DEF StructInv, Joined
    <2>2. Head(m).do \notin {"frames", "put"}
      BY <1>1, StepFacts DEF StructInv, Scripts
    <2>3. Head(m).do \notin {"load", "create"}
      <3>1. Rank(Start) = 7 /\ Rank(Load) = 0 /\ Rank(Start) <= Rank(Head(m))
        BY <1>1, <2>1, RankFacts
      <3>2. Head(m) # Load
        BY <3>1
      <3>3. Head(m).do = "create" => Rank(Head(m)) \in 1..6
        BY <1>1, StepFacts
      <3>4. Head(m).do # "create"
        BY <3>1, <3>3
      <3> QED BY <1>1, <3>2, <3>4, StepFacts
    <2>4. Head(m) = Stop
      <3>1. Head(m).do # "mark"
        BY <1>1, StepFacts DEF StructInv, Scripts
      <3> QED BY <1>1, <2>2, <2>3, <3>1, StepFacts
    <2>5. Rank(Stop) = 11 /\ Rank(Join(t)) = 10 /\ Join(t) # Stop
      BY RankFacts
    <2>6. Rank(Stop) <= Rank(Join(t))
      BY <1>1, <2>1, <2>4, <2>5, TailFacts, TailInOrder
    <2> QED BY <2>5, <2>6
  <1>10. Ownership'
    <2>0. Held \subseteq Resources /\ "streamCallbacks" \in Resources
      BY DEF Held, Resources
    <2>1. (Tidy' <=> Tidy) /\ (Stopping' <=> Stopping)
      BY DEF Tidy, Stopping, StartedTwice
    <2>2. \A r \in Held : Free(r) \in Left(todo'["main"])
      BY <1>2 DEF FreeSteps
    <2> QED BY <1>6, <2>0, <2>1, <2>2 DEF StructInv, Ownership
  <1>11. Pointers'
    BY DEF StructInv, Pointers
  <1>12. SettingUp'
    BY <1>6, SetUp
  <1> QED BY <1>7, <1>8, <1>9, <1>10, <1>11, <1>12 DEF StructInv

(* A sending thread does a step of its own that creates nothing.           *)
LEMMA ThreadMoves ==
  ASSUME ProgramTypes, StructInv, NEW t \in {"video", "audio"}, NEW q, todo[t] # << >>,
         Head(todo[t]).do # "create",
         \/ q = Tail(todo[t])
         \/ q = <<Put>> \o todo[t] /\ Head(todo[t]) = Frames
         \/ /\ q = <<Mark>> \o Tail(todo[t]) /\ t = "video" /\ program # "MediaProvider",
         todo' = [todo EXCEPT ![t] = q],
         UNCHANGED <<program, ptr, alive, session, streamHandle, handled>>
  PROVE  StructInv'
  <1> DEFINE m == todo[t]
  <1>1. /\ m \in Seq(AllSteps) /\ Head(m) \in AllSteps /\ Head(m) \in Left(m)
        /\ todo'[t] = q /\ \A a \in Actors : a # t => todo'[a] = todo[a]
    BY TailFacts DEF ProgramTypes, Actors
  <1>2. t # "main" /\ todo'["main"] = todo["main"]
    BY <1>1 DEF Actors
  <1>3. Put \in AllSteps /\ Put.do = "put" /\ Mark \in AllSteps /\ Mark.do = "mark"
    BY RankFacts
  <1>4. Tail(m) \in Seq(AllSteps) /\ Left(m) = {Head(m)} \cup Left(Tail(m))
    BY <1>1, TailFacts
  <1>5. /\ \A x \in Left(q) : x \in Left(m) \cup {Put, Mark}
        /\ \A x \in Left(m) : x = Head(m) \/ x \in Left(q)
    <2>1. CASE q = Tail(m)
      BY <1>4, <2>1
    <2>2. CASE q = <<Put>> \o m
      BY <1>1, <1>3, <2>2, PushFacts
    <2>3. CASE q = <<Mark>> \o Tail(m)
      <3>1. Left(<<Mark>> \o Tail(m)) = {Mark} \cup Left(Tail(m))
        BY <1>3, <1>4, PushFacts
      <3> QED BY <1>4, <2>3, <3>1
    <2> QED BY <2>1, <2>2, <2>3
  <1>6. \A r \in Resources : Create(r) \in Left(q) <=> Create(r) \in Left(m)
    BY <1>3, <1>5, RankFacts
  <1>7. \A r \in Resources : ToCreate(r)' <=> ToCreate(r)
    <2>1. Creator' = Creator /\ Creator \in Actors
      BY DEF Creator, Actors
    <2> QED BY <1>1, <1>6, <2>1 DEF ToCreate
  <1>8. Scripts'
    <2>1. ASSUME Creator = t
          PROVE  InOrder(q)
      <3>0. InOrder(m)
        BY <2>1 DEF StructInv, Scripts
      <3>1. CASE q = Tail(m)
        BY <1>1, <3>0, <3>1, TailInOrder
      <3>2. CASE q = <<Put>> \o m /\ Head(m) = Frames
        <4> SUFFICES ASSUME NEW y \in Left(m) PROVE Rank(Put) <= Rank(y)
          BY <1>1, <1>3, <3>0, <3>2, PushInOrder
        <4>1. Rank(Put) = 8 /\ Rank(Frames) = 9
          BY RankFacts
        <4>2. y = Frames \/ y \in Left(Tail(m))
          BY <1>4, <3>2
        <4>3. Rank(y) \in Nat
          BY <1>1, TailFacts, StepFacts
        <4>4. y \in Left(Tail(m)) => Rank(Frames) <= Rank(y)
          BY <1>1, <3>0, <3>2, TailInOrder
        <4> QED BY <4>1, <4>2, <4>3, <4>4
      <3>3. program = "MediaProvider"
        BY <1>2, <2>1 DEF Creator
      <3> QED BY <3>1, <3>2, <3>3
    <2>2. InOrder(todo'["main"]) /\ InOrder(todo'[Creator'])
      <3>1. Creator' = Creator /\ Creator \in Actors
        BY DEF Creator, Actors
      <3>2. InOrder(todo["main"]) /\ InOrder(todo[Creator])
        BY DEF StructInv, Scripts
      <3> QED BY <1>1, <1>2, <2>1, <3>1, <3>2
    <2>3. /\ Left(q) \subseteq {Put, Frames, Mark} \cup {Create(r) : r \in Resources}
          /\ t # Creator => \A r \in Resources : Create(r) \notin Left(q)
      BY <1>5, <1>6 DEF StructInv, Scripts
    <2>4. \A u \in {"video", "audio"} :
            /\ Left(todo'[u]) \subseteq {Put, Frames, Mark} \cup {Create(r) : r \in Resources}
            /\ u # Creator' => \A r \in Resources : Create(r) \notin Left(todo'[u])
      <3> SUFFICES ASSUME NEW u \in {"video", "audio"}
            PROVE /\ Left(todo'[u]) \subseteq {Put, Frames, Mark} \cup {Create(r) : r \in Resources}
                  /\ u # Creator' => \A r \in Resources : Create(r) \notin Left(todo'[u])
        OBVIOUS
      <3>1. Creator' = Creator
        BY DEF Creator
      <3>2. CASE u = t
        BY <1>1, <2>3, <3>1, <3>2
      <3>3. CASE u # t
        BY <1>1, <3>1, <3>3, SMTT(30) DEF StructInv, Scripts, Actors
      <3> QED BY <3>2, <3>3
    <2>5. ASSUME NEW x, (x = Mark /\ t = "video") \/ (x = Put /\ t = "audio"), NEW i \in DOMAIN q, i > 1
          PROVE  q[i] # x
      <3>0. \A j \in DOMAIN m : j > 1 => m[j] # x
        BY <2>5 DEF StructInv, Scripts
      <3>1. CASE q = Tail(m)
        <4>1. i \in Nat /\ i + 1 \in DOMAIN m /\ i + 1 > 1 /\ q[i] = m[i + 1]
          BY <1>1, <2>5, <3>1, TailFacts
        <4> QED BY <3>0, <4>1
      <3>2. CASE q = <<Put>> \o m /\ Head(m) = Frames
        <4>1. i \in 2..(Len(m) + 1) /\ Len(m) \in Nat
          BY <1>1, <1>3, <2>5, <3>2, PushFacts
        <4>2. i - 1 \in DOMAIN m /\ q[i] = m[i - 1]
          BY <1>1, <1>3, <3>2, <4>1, PushFacts
        <4>3. CASE i - 1 = 1
          <5>1. q[i] = Frames
            BY <1>1, <3>2, <4>2, <4>3, TailFacts
          <5>2. Frames # Mark /\ Frames # Put
            BY DEF Frames, Mark, Put, Step
          <5> QED BY <2>5, <5>1, <5>2
        <4>4. CASE i - 1 # 1
          <5>1. i - 1 > 1
            BY <4>1, <4>4
          <5> QED BY <3>0, <4>2, <5>1
        <4> QED BY <4>3, <4>4
      <3>3. CASE q = <<Mark>> \o Tail(m)
        <4>1. i \in 2..(Len(Tail(m)) + 1)
          BY <1>3, <1>4, <2>5, <3>3, PushFacts
        <4>2. i - 1 \in DOMAIN Tail(m) /\ q[i] = Tail(m)[i - 1]
          BY <1>3, <1>4, <3>3, <4>1, PushFacts
        <4>0. i - 1 \in Nat /\ i \in Int
          BY <1>4, <4>1
        <4>3. (i - 1) + 1 \in DOMAIN m /\ Tail(m)[i - 1] = m[(i - 1) + 1] /\ (i - 1) + 1 = i
          BY <1>1, <4>0, <4>2, TailFacts
        <4> QED BY <2>5, <3>0, <4>2, <4>3
      <3> QED BY <3>1, <3>2, <3>3
    <2>6. \A i \in DOMAIN todo'["video"] : i > 1 => todo'["video"][i] # Mark
      <3>1. CASE t = "video"
        <4>1. \A i \in DOMAIN q : i > 1 => q[i] # Mark
          BY <2>5, <3>1
        <4> QED BY <1>1, <3>1, <4>1
      <3>2. CASE t = "audio"
        BY <1>1, <3>2 DEF StructInv, Scripts, Actors
      <3> QED BY <3>1, <3>2
    <2>7. \A i \in DOMAIN todo'["audio"] : i > 1 => todo'["audio"][i] # Put
      <3>1. CASE t = "audio"
        <4>1. \A i \in DOMAIN q : i > 1 => q[i] # Put
          BY <2>5, <3>1
        <4> QED BY <1>1, <3>1, <4>1
      <3>2. CASE t = "video"
        BY <1>1, <3>2 DEF StructInv, Scripts, Actors
      <3> QED BY <3>1, <3>2
    <2>8. SendingThreads' = SendingThreads
      BY DEF SendingThreads
    <2> QED BY <1>2, <2>2, <2>4, <2>6, <2>7, <2>8 DEF StructInv, Scripts
  <1>9. SettingUp'
    BY <1>7, SettingUpKept DEF StructInv
  <1>10. Pointers'
    BY DEF StructInv, Pointers
  <1>11. FreesInOrder'
    BY <1>2 DEF StructInv, FreesInOrder, At
  <1>12. Joined'
    <2> SUFFICES ASSUME program \in Copying, NEW u \in {"video", "audio"}, todo'[u] # << >>
                 PROVE  /\ Join(u) \in Left(todo["main"])
                        /\ \A x \in Left(todo["main"]) : Rank(Start) <= Rank(x)
                        /\ streamHandle = ptr["stream"]
      BY <1>2 DEF Joined
    <2>1. todo[u] # << >>
      BY <1>1 DEF Actors
    <2> QED BY <2>1 DEF StructInv, Joined
  <1>13. Ownership'
    <2>1. (Tidy' <=> Tidy) /\ (Stopping' <=> Stopping)
      BY DEF Tidy, Stopping, StartedTwice
    <2>2. Held \subseteq Resources /\ "streamCallbacks" \in Resources /\ "callbacks" \in Resources
      BY DEF Held, Resources
    <2> QED BY <1>2, <1>7, <2>1, <2>2 DEF StructInv, Ownership, At
  <1> QED BY <1>8, <1>9, <1>10, <1>11, <1>12, <1>13 DEF StructInv

(* Main starts the threads of a session.                                   *)
LEMMA StartKeeps ==
  ASSUME ProgramTypes, StructInv, StartSession
  PROVE  StructInv' /\ todo' \in [Actors -> Seq(AllSteps)]
  <1> DEFINE m == todo["main"]
  <1>0. /\ m # << >> /\ Head(m).do = "start"
        /\ todo' = [a \in Actors |-> IF a = "main" THEN Tail(todo[a])
                                     ELSE IF a \in SendingThreads THEN ThreadScript(a)
                                     ELSE << >>]
        /\ UNCHANGED <<program, ptr, alive, session, handled>> /\ streamHandle' = ptr["stream"]
    BY DEF StartSession, At
  <1>1. /\ m \in Seq(AllSteps) /\ Head(m) \in AllSteps /\ Head(m) = Start
        /\ InOrder(m) /\ Tail(m) \in Seq(AllSteps) /\ Left(m) = {Start} \cup Left(Tail(m))
    BY <1>0, TailFacts, StepFacts DEF ProgramTypes, StructInv, Scripts, Actors
  <1>2. /\ InOrder(Tail(m)) /\ \A x \in Left(Tail(m)) : Rank(Start) <= Rank(x)
    BY <1>0, <1>1, TailInOrder
  <1>3. /\ todo'["main"] = Tail(m)
        /\ \A t \in {"video", "audio"} : todo'[t] = IF t \in SendingThreads THEN ThreadScript(t) ELSE << >>
    BY <1>0 DEF Actors
  <1>4. \A t \in {"video", "audio"} :
          /\ SoundScript(ThreadScript(t))
          /\ Left(ThreadScript(t)) = IF program = "MediaProvider" THEN CreateSteps \cup {Frames} ELSE {Frames}
    BY ScriptsSound, PiecesSound DEF ThreadScript
  <1>5. SoundScript(<< >>) /\ Left(<< >>) = {}
    BY PiecesSound
  <1>6. \A t \in {"video", "audio"} :
          /\ todo'[t] \in Seq(AllSteps)
          /\ Left(todo'[t]) \subseteq {Frames} \cup CreateSteps
          /\ program # "MediaProvider" => Left(todo'[t]) \subseteq {Frames}
    BY <1>3, <1>4, <1>5 DEF SoundScript
  <1>7. SendingThreads \subseteq {"video", "audio"} /\ SendingThreads' = SendingThreads
        /\ (program = "MediaProvider" => SendingThreads = {"video"})
    <2>1. program \in Programs
      BY DEF ProgramTypes
    <2> QED BY <1>0, <2>1 DEF SendingThreads, Programs, Samples, Services
  <1>8. todo' \in [Actors -> Seq(AllSteps)]
    <2>1. \A a \in Actors : todo'[a] \in Seq(AllSteps)
      BY <1>1, <1>3, <1>6 DEF Actors
    <2> QED BY <1>0, <2>1
  <1>9. Creator' = Creator
    BY <1>0 DEF Creator
  <1> HIDE DEF m
  <1>10. \/ program = "MediaProvider" /\ \A r \in Resources : ToCreate(r)'
         \/ program # "MediaProvider" /\ \A r \in Resources : ~ToCreate(r)'
    <2>1. CASE program = "MediaProvider"
      <3>1. Left(todo'["video"]) = CreateSteps \cup {Frames}
        BY <1>3, <1>4, <1>7, <2>1
      <3>2. Creator' = "video"
        BY <1>0, <2>1 DEF Creator
      <3> QED BY <2>1, <3>1, <3>2 DEF ToCreate, CreateSteps
    <2>2. CASE program # "MediaProvider"
      <3>1. Creator' = "main"
        BY <1>0, <2>2 DEF Creator
      <3>2. ASSUME NEW r \in Resources, Create(r) \in Left(Tail(m))
            PROVE  FALSE
        <4>1. Rank(Create(r)) \in 1..6 /\ Rank(Start) = 7 /\ Rank(Start) <= Rank(Create(r))
          BY <1>2, <3>2, RankFacts
        <4> QED BY <4>1
      <3> QED BY <1>3, <2>2, <3>1, <3>2 DEF ToCreate
    <2> QED BY <2>1, <2>2
  <1>11. Frames # Mark /\ Frames # Put /\ \A x \in CreateSteps : x # Mark /\ x # Put
    BY DEF Frames, Mark, Put, Step, CreateSteps, Create
  <1>12. Scripts'
    <2>1. InOrder(todo'["main"]) /\ InOrder(todo'[Creator'])
      <3>1. CASE program = "MediaProvider"
        <4>1. InOrder(todo'["video"])
          BY <1>3, <1>4, <1>7, <3>1 DEF SoundScript
        <4> QED BY <1>0, <1>2, <1>3, <3>1, <4>1 DEF Creator
      <3>2. CASE program # "MediaProvider"
        BY <1>0, <1>2, <1>3, <3>2 DEF Creator
      <3> QED BY <3>1, <3>2
    <2>2. /\ Mark \notin Left(todo'["main"])
          /\ program' = "MediaProvider" => Left(todo'["main"]) \subseteq {Start}
          /\ program' \in Copying \cup Services => Left(todo'["main"]) \cap {Put, Frames} = {}
      BY <1>0, <1>1, <1>3 DEF StructInv, Scripts, m
    <2>3. ASSUME program' \in Copying, Start \in Left(todo'["main"]), NEW t \in SendingThreads'
          PROVE  Join(t) \in Left(todo'["main"])
      <3>1. Join(t) \in Left(m)
        BY <1>0, <1>1, <1>7, <2>3 DEF StructInv, Scripts, m
      <3>2. Join(t) # Start
        BY <1>7, <2>3, RankFacts
      <3> QED BY <1>1, <1>3, <3>1, <3>2
    <2>4. ASSUME NEW t \in {"video", "audio"}
          PROVE  /\ Left(todo'[t]) \subseteq {Put, Frames, Mark} \cup {Create(r) : r \in Resources}
                 /\ t # Creator' => \A r \in Resources : Create(r) \notin Left(todo'[t])
      <3>1. Left(todo'[t]) \subseteq {Put, Frames, Mark} \cup {Create(r) : r \in Resources}
        BY <1>6 DEF CreateSteps
      <3>2. \A r \in Resources : Create(r) # Frames
        BY RankFacts
      <3>3. CASE program = "MediaProvider"
        <4>1. t # Creator' => Left(todo'[t]) = {}
          BY <1>0, <1>3, <1>5, <1>7, <3>3 DEF Creator
        <4> QED BY <3>1, <4>1
      <3>4. CASE program # "MediaProvider"
        BY <1>6, <3>1, <3>2, <3>4
      <3> QED BY <3>3, <3>4
    <2>5. /\ \A i \in DOMAIN todo'["video"] : todo'["video"][i] # Mark
          /\ \A i \in DOMAIN todo'["audio"] : todo'["audio"][i] # Put
      BY <1>6, <1>11 DEF Left
    <2> QED BY <2>1, <2>2, <2>3, <2>4, <2>5 DEF Scripts
  <1>13. SettingUp'
    BY <1>10, SetUp
  <1>14. Pointers'
    BY <1>0 DEF StructInv, Pointers
  <1>15. FreesInOrder'
    <2>1. FreedBefore(m)
      BY <1>0 DEF FreedBefore, StructInv, FreesInOrder, At, m
    <2>2. FreedBefore(Tail(m))
      BY <1>0, <1>1, <2>1, FreedBeforeMoves DEF m
    <2> QED BY <1>3, <2>2 DEF FreedBefore, FreesInOrder
  <1>16. Joined'
    <2> SUFFICES ASSUME program \in Copying, NEW t \in {"video", "audio"}, todo'[t] # << >>
                 PROVE  Join(t) \in Left(Tail(m))
      BY <1>0, <1>2, <1>3 DEF Joined
    <2>1. t \in SendingThreads
      BY <1>3
    <2>2. Join(t) \in Left(m)
      BY <1>1, <2>1 DEF StructInv, Scripts, m
    <2>3. Join(t) # Start
      BY RankFacts
    <2> QED BY <1>1, <2>2, <2>3
  <1>17. Ownership'
    <2>1. (Tidy' <=> Tidy) /\ (Stopping' <=> Stopping)
      BY <1>0 DEF Tidy, Stopping, StartedTwice
    <2>2. Held \subseteq Resources /\ "streamCallbacks" \in Resources
      BY DEF Held, Resources
    <2>3. \A r \in Held : Free(r) \in Left(m) => Free(r) \in Left(todo'["main"])
      <3>1. \A r \in Held : Free(r) # Start
        BY RankFacts
      <3> QED BY <1>1, <1>3, <3>1
    <2>4. program = "MediaProvider" => ~Tidy /\ program \notin Samples /\ program \notin Checked
      BY DEF Tidy, Samples, Checked
    <2>5. Tidy' => /\ \A x \in alive' : x[1] \in Held => ptr'[x[1]] = x[2]
                   /\ \A r \in Held : ToCreate(r)' => ptr'[r] = 0
      BY <1>0, <1>10, <2>1, <2>2, <2>4 DEF StructInv, Ownership
    <2>6. Stopping' => \A r \in Held : ptr'[r] = 0 \/ Free(r) \in Left(todo'["main"])
      BY <1>0, <2>1, <2>3 DEF StructInv, Ownership, m
    <2>7. program' \in Samples => \A r \in Held : Free(r) \in Left(todo'["main"])
      BY <1>0, <2>3 DEF StructInv, Ownership, At, m
    <2>8. Stopping' /\ program' = "KvsService" => \A r \in Resources : ~ToCreate(r)'
      BY <1>0, <1>10
    <2>9. program' \in Checked =>
            /\ \A s \in Nat : <<"streamCallbacks", s>> \in alive' => ptr'["callbacks"] = s
            /\ ~ToCreate("streamCallbacks")'
      BY <1>0, <1>10, <2>2, <2>4 DEF StructInv, Ownership
    <2> QED BY <2>5, <2>6, <2>7, <2>8, <2>9 DEF Ownership
  <1> QED BY <1>8, <1>12, <1>13, <1>14, <1>15, <1>16, <1>17 DEF StructInv

(* A service takes a command off its queue.                                *)
LEMMA MethodKeeps ==
  ASSUME ProgramTypes, StructInv, methodThread
  PROVE  /\ StructInv' /\ todo' \in [Actors -> Seq(AllSteps)]
         /\ handled' \in Seq({"cmd1", "cmd2"}) /\ mQueue' \in Seq({"cmd1", "cmd2"})
  <1> DEFINE c == Dequeue.method
             q == todo'["main"]
  <1>0. /\ program \in Services /\ todo["main"] = << >> /\ mQueue # << >>
        /\ todo' = [todo EXCEPT !["main"] = IF program = "KvsService" THEN HandleAsyncMethod(c)
                                                                      ELSE HandleAsyncMethodJames(c)]
        /\ mQueue' = Tail(mQueue) /\ handled' = Append(handled, c)
        /\ UNCHANGED <<program, ptr, alive, session, streamHandle>>
    BY DEF methodThread, Dequeue
  <1>1. /\ c \in {"cmd1", "cmd2"} /\ mQueue' \in Seq({"cmd1", "cmd2"})
        /\ handled' \in Seq({"cmd1", "cmd2"}) /\ handled \in Seq({"cmd1", "cmd2"})
        /\ Len(handled') = Len(handled) + 1 /\ Len(handled) \in Nat
        /\ handled'[Len(handled) + 1] = c
        /\ \A i \in 1..Len(handled) : handled'[i] = handled[i]
    BY <1>0 DEF ProgramTypes, Dequeue
  <1>2. /\ q = IF program = "KvsService" THEN HandleAsyncMethod(c) ELSE HandleAsyncMethodJames(c)
        /\ \A t \in {"video", "audio"} : todo'[t] = todo[t]
    BY <1>0 DEF ProgramTypes, Actors
  <1> HIDE DEF c, q
  <1>3. /\ SoundScript(q)
        /\ \/ program = "KvsService" /\ c = "cmd1"
                /\ Left(q) = CreateSteps \cup {Start, Join("video"), Join("audio")}
           \/ program = "KvsService" /\ c = "cmd2" /\ Left(q) = {Stop} \cup FreeSteps
           \/ program = "MediaProvider" /\ Left(q) \subseteq {Start}
    <2>1. CASE program = "KvsService"
      <3>1. CASE c = "cmd1"
        BY <1>2, <2>1, <3>1, ScriptsSound DEF HandleAsyncMethod
      <3>2. CASE c = "cmd2"
        BY <1>2, <2>1, <3>2, ScriptsSound DEF HandleAsyncMethod, KvsPlayerStop
      <3> QED BY <1>1, <3>1, <3>2
    <2>2. CASE program = "MediaProvider"
      BY <1>2, <2>2, PiecesSound DEF HandleAsyncMethodJames
    <2> QED BY <1>0, <2>1, <2>2 DEF Services
  <1>4. q \in Seq(AllSteps) /\ InOrder(q) /\ FreedBefore(q)
    BY <1>3 DEF SoundScript
  <1>5. todo' \in [Actors -> Seq(AllSteps)]
    BY <1>0, <1>2, <1>4 DEF ProgramTypes, q
  <1>6. /\ program \notin Samples /\ program \notin Checked /\ program \notin Copying
        /\ Creator' = Creator
    BY <1>0 DEF Services, Samples, Checked, Copying, Creator
  <1>7. Left(todo["main"]) = {}
    BY <1>0, PiecesSound
  <1>8. /\ Mark \notin Left(q) /\ Put \notin Left(q) /\ Frames \notin Left(q)
    <2>1. \A x \in CreateSteps \cup FreeSteps \cup {Start, Stop, Join("video"), Join("audio")} :
            x # Mark /\ x # Put /\ x # Frames
      BY DEF CreateSteps, FreeSteps, Create, Free, Start, Stop, Join, Mark, Put, Frames, Step
    <2> QED BY <1>3, <2>1
  <1>9. Scripts'
    <2>1. InOrder(q) /\ InOrder(todo'[Creator'])
      <3>1. CASE Creator = "main"
        BY <1>4, <1>6, <3>1 DEF q
      <3>2. CASE Creator = "video"
        BY <1>2, <1>4, <1>6, <3>2 DEF StructInv, Scripts
      <3> QED BY <3>1, <3>2 DEF Creator
    <2>2. program' = "MediaProvider" => Left(q) \subseteq {Start}
      BY <1>0, <1>3
    <2>3. program' \notin Copying
      BY <1>0, <1>6
    <2> QED BY <1>2, <1>6, <1>8, <2>1, <2>2, <2>3 DEF StructInv, Scripts, q
  <1>10. /\ program = "KvsService" /\ c = "cmd1" => \A r \in Resources : ToCreate(r)'
         /\ program = "KvsService" /\ c = "cmd2" => \A r \in Resources : ~ToCreate(r)'
         /\ program = "MediaProvider" => \A r \in Resources : ToCreate(r)' <=> ToCreate(r)
    <2>1. ASSUME program = "KvsService"
          PROVE  \A r \in Resources : ToCreate(r)' <=> Create(r) \in Left(q)
      BY <1>0, <2>1 DEF ToCreate, Creator, q
    <2>2. \A r \in Resources : Create(r) \notin {Stop} \cup FreeSteps
      BY DEF FreeSteps, Create, Free, Stop, Step
    <2>3. \A r \in Resources : Create(r) \in CreateSteps
      BY DEF CreateSteps
    <2>4. program = "MediaProvider" => \A r \in Resources : ToCreate(r)' <=> ToCreate(r)
      BY <1>0, <1>2 DEF ToCreate, Creator
    <2> QED BY <1>3, <2>1, <2>2, <2>3, <2>4
  <1>11. SettingUp'
    <2>1. CASE program = "KvsService"
      BY <1>1, <1>10, <2>1, SetUp
    <2>2. CASE program = "MediaProvider"
      BY <1>0, <1>10, <2>2, SettingUpKept DEF StructInv
    <2> QED BY <1>3, <2>1, <2>2
  <1>12. Pointers'
    BY <1>0 DEF StructInv, Pointers
  <1>13. FreesInOrder'
    BY <1>4 DEF FreesInOrder, FreedBefore, q
  <1>14. Joined'
    BY <1>0, <1>6 DEF Joined
  <1>15. Ownership'
    <2>1. Tidy' => program = "KvsService" /\ Tidy /\ (c = "cmd1" => Stopping)
      <3> SUFFICES ASSUME Tidy'
                   PROVE  program = "KvsService" /\ Tidy /\ (c = "cmd1" => Stopping)
        OBVIOUS
      <3>1. program = "KvsService" /\ ~StartedTwice'
        BY <1>0, <1>6 DEF Tidy
      <3>2. ~StartedTwice
        <4> SUFFICES ASSUME NEW i \in 1..Len(handled) - 1,
                            handled[i] = "cmd1", handled[i + 1] = "cmd1"
                     PROVE  FALSE
          BY DEF StartedTwice
        <4>1. i \in 1..Len(handled') - 1 /\ i \in 1..Len(handled) /\ i + 1 \in 1..Len(handled)
          BY <1>1
        <4>2. handled'[i] = "cmd1" /\ handled'[i + 1] = "cmd1"
          BY <1>1, <4>1
        <4> QED BY <3>1, <4>1, <4>2 DEF StartedTwice
      <3>3. ASSUME c = "cmd1", ~Stopping
            PROVE  FALSE
        <4>1. handled # << >> /\ handled[Len(handled)] # "cmd2"
          BY <3>1, <3>3 DEF Stopping
        <4>2. Len(handled) \in 1..Len(handled)
          BY <1>1, <4>1
        <4>3. handled[Len(handled)] = "cmd1"
          BY <1>1, <4>1, <4>2
        <4>4. Len(handled) \in 1..Len(handled') - 1
          BY <1>1, <4>2
        <4>5. handled'[Len(handled)] = "cmd1" /\ handled'[Len(handled) + 1] = "cmd1"
          BY <1>1, <3>3, <4>2, <4>3
        <4> QED BY <3>1, <4>4, <4>5 DEF StartedTwice
      <3> QED BY <3>1, <3>2, <3>3 DEF Tidy
    <2>2. Held \subseteq Resources
      BY DEF Held
    <2>3. Tidy' => /\ \A x \in alive' : x[1] \in Held => ptr'[x[1]] = x[2]
                   /\ \A r \in Held : ToCreate(r)' => ptr'[r] = 0
      <3>1. ASSUME Tidy', c = "cmd1"
            PROVE  \A r \in Held : ptr[r] = 0
        BY <1>7, <2>1, <3>1 DEF StructInv, Ownership
      <3>2. ASSUME Tidy', c = "cmd2"
            PROVE  \A r \in Held : ~ToCreate(r)'
        BY <1>10, <2>1, <2>2, <3>2
      <3>3. Tidy' => \A x \in alive' : x[1] \in Held => ptr'[x[1]] = x[2]
        BY <1>0, <2>1 DEF StructInv, Ownership
      <3> QED BY <1>0, <1>1, <3>1, <3>2, <3>3
    <2>4. Stopping' => program = "KvsService" /\ c = "cmd2"
      <3>1. handled' # << >>
        BY <1>1
      <3> QED BY <1>0, <1>1, <1>6, <3>1 DEF Stopping
    <2>5. Stopping' => \A r \in Held : Free(r) \in Left(q)
      BY <1>3, <2>4 DEF FreeSteps
    <2>6. Stopping' => \A r \in Resources : ~ToCreate(r)'
      BY <1>10, <2>4
    <2> QED BY <1>0, <1>6, <2>3, <2>5, <2>6 DEF Ownership, q
  <1> QED BY <1>1, <1>5, <1>9, <1>11, <1>12, <1>13, <1>14, <1>15 DEF StructInv

(* The creator creates an object, or goes on without it.                   *)
LEMMA CreateKeeps ==
  ASSUME ProgramTypes, StructInv, NEW r \in Resources, NEW v,
         todo[Creator] # << >>, Head(todo[Creator]) = Create(r),
         session' = IF r = "device" THEN session + 1 ELSE session,
         \/ v = session' /\ (\A n \in Needs(r) : ptr[n] # 0) /\ alive' = alive \cup {<<r, v>>}
         \/ /\ v = 0 /\ r \in {"callbacks", "client", "stream"} /\ program \notin Checked
            /\ alive' = alive,
         ptr' = [ptr EXCEPT ![r] = v],
         todo' = [todo EXCEPT ![Creator] = Tail(@)],
         UNCHANGED <<program, streamHandle, handled>>
  PROVE  /\ StructInv' /\ todo' \in [Actors -> Seq(AllSteps)] /\ session' \in Nat
         /\ ptr' \in [Resources -> Nat] /\ alive' \subseteq Resources \X (1..session')
  <1> DEFINE c == Creator
             m == todo[c]
  <1>1. /\ c \in Actors /\ c \in {"main", "video"} /\ Creator' = c /\ session \in Nat
        /\ m \in Seq(AllSteps) /\ InOrder(m) /\ Tail(m) \in Seq(AllSteps)
        /\ todo'[c] = Tail(m) /\ \A a \in Actors : a # c => todo'[a] = todo[a]
        /\ Left(m) = {Create(r)} \cup Left(Tail(m)) /\ InOrder(Tail(m))
        /\ todo' \in [Actors -> Seq(AllSteps)]
    <2>1. c \in Actors /\ c \in {"main", "video"} /\ Creator' = c
      BY DEF Creator, Actors
    <2>2. m \in Seq(AllSteps) /\ InOrder(m) /\ session \in Nat
      BY <2>1 DEF ProgramTypes, StructInv, Scripts
    <2>3. Tail(m) \in Seq(AllSteps) /\ Left(m) = {Create(r)} \cup Left(Tail(m)) /\ InOrder(Tail(m))
      BY <2>2, TailFacts, TailInOrder
    <2>4. todo'[c] = Tail(m) /\ \A a \in Actors : a # c => todo'[a] = todo[a]
      BY <2>1 DEF ProgramTypes
    <2>5. todo' \in [Actors -> Seq(AllSteps)]
      BY <2>1, <2>3 DEF ProgramTypes
    <2> QED BY <2>1, <2>2, <2>3, <2>4, <2>5
  <1>2. \A x \in Left(Tail(m)) : Rank(Create(r)) < Rank(x)
    <2>1. Create(r).do = "create"
      BY RankFacts
    <2> QED BY <1>1, <2>1, TailInOrder
  <1> HIDE DEF c, m
  <1>3. Create(r) \notin Left(Tail(m)) /\ \A x \in Resources : Create(x) = Create(r) => x = r
    <2>1. Rank(Create(r)) \in 1..6
      BY RankFacts
    <2>2. Create(r) \notin Left(Tail(m))
      BY <1>2, <2>1
    <2> QED BY <2>2, RankFacts
  <1>4. \A x \in Resources : ToCreate(x)' <=> ToCreate(x) /\ x # r
    BY <1>1, <1>3 DEF ToCreate, c, m
  <1>5. /\ \A x \in Resources : Create(x) \in Left(Tail(m)) => Rank(Create(r)) < Rank(Create(x))
        /\ "device" \in Resources /\ ToCreate(r) /\ Held \subseteq Resources
    BY <1>1, <1>2 DEF ToCreate, c, m, Resources, Held
  <1>6. ~ToCreate("device")' /\ (r # "device" => ~ToCreate("device"))
    <2>1. Create("device") \notin Left(Tail(m))
      <3>1. Rank(Create("device")) = 1 /\ Rank(Create(r)) \in 1..6
        BY RankFacts
      <3>2. ~(Rank(Create(r)) < Rank(Create("device")))
        BY <3>1
      <3> QED BY <1>5, <3>2
    <2>2. Left(todo'[Creator']) = Left(Tail(m))
      BY <1>1 DEF c
    <2>3. r # "device" => ~ToCreate("device")
      BY <1>1, <1>3, <1>5, <2>1 DEF ToCreate, c, m
    <2> QED BY <2>1, <2>2, <2>3 DEF ToCreate
  <1>7. \A x, n \in Resources : <<x, n>> \in MadeFrom => ~(x = r /\ ToCreate(n))
    <2> SUFFICES ASSUME NEW n \in Resources, <<r, n>> \in MadeFrom, ToCreate(n)
                 PROVE  FALSE
      OBVIOUS
    <2>1. Rank(Create(n)) < Rank(Create(r)) /\ Rank(Create(n)) \in 1..6 /\ Rank(Create(r)) \in 1..6
      BY RankFacts
    <2>2. n # r
      BY <2>1
    <2>3. Create(n) \in Left(Tail(m))
      BY <1>1, <1>3, <2>2 DEF ToCreate, c, m
    <2>4. Rank(Create(r)) < Rank(Create(n))
      BY <1>5, <2>3
    <2> QED BY <2>1, <2>4
  <1>8. session' \in Nat /\ session' > 0 /\ (r # "device" => session' = session)
    <2>1. CASE r = "device"
      BY <1>1, <2>1
    <2>2. CASE r # "device"
      <3>1. session > 0
        BY <1>5, <1>6, <2>2 DEF StructInv, SettingUp
      <3> QED BY <1>1, <2>2, <3>1
    <2> QED BY <2>1, <2>2
  <1>9. /\ ptr \in [Resources -> Nat] /\ ptr' \in [Resources -> Nat] /\ ptr'[r] = v /\ v \in {0, session'}
        /\ \A x \in Resources : x # r => ptr'[x] = ptr[x]
    BY <1>8 DEF ProgramTypes
  <1>10. /\ alive \subseteq Resources \X (1..session)
         /\ \A x, s : <<x, s>> \in alive => x \in Resources /\ s \in Nat /\ s > 0 /\ s <= session
    BY <1>1 DEF ProgramTypes
  <1>11. alive' \subseteq Resources \X (1..session')
    <2>1. Resources \X (1..session) \subseteq Resources \X (1..session')
      BY <1>1
    <2>2. session' \in 1..session'
      BY <1>8
    <2> QED BY <1>10, <2>1, <2>2
  <1>12. \A x : x \in alive' => x \in alive \/ (x = <<r, v>> /\ v = session' /\ \A n \in Needs(r) : ptr[n] # 0)
    OBVIOUS
  <1>13. \A x : x \in alive => x \in alive'
    OBVIOUS
  <1>14. SettingUp'
    <2>1. ASSUME NEW x \in Resources, NEW n \in Resources, <<x, n>> \in MadeFrom
          PROVE  /\ ToCreate(n)' => ToCreate(x)'
                 /\ ToCreate(x)' /\ ~ToCreate(n)' => ptr'[n] \in {0, session'}
                 /\ ToCreate(x)' /\ ~ToCreate("device")' => <<x, session'>> \notin alive'
      <3>1. ToCreate(n)' => ToCreate(x)'
        <4>1. ToCreate(n) => ToCreate(x) /\ x # r
          BY <1>7, <2>1 DEF StructInv, SettingUp
        <4> QED BY <1>4, <4>1
      <3>2. ASSUME ToCreate(x)', ~ToCreate(n)'
            PROVE  ptr'[n] \in {0, session'}
        <4>1. CASE n = r
          BY <1>9, <4>1
        <4>2. CASE n # r
          <5>1. ToCreate(x) /\ ~ToCreate(n)
            BY <1>4, <3>2, <4>2
          <5>2. ptr[n] \in {0, session} /\ ~ToCreate("device")
            BY <2>1, <5>1 DEF StructInv, SettingUp
          <5>3. r # "device"
            BY <1>5, <5>2
          <5> QED BY <1>8, <1>9, <4>2, <5>2, <5>3
        <4> QED BY <4>1, <4>2
      <3>3. ASSUME ToCreate(x)'
            PROVE  <<x, session'>> \notin alive'
        <4>1. ToCreate(x) /\ x # r
          BY <1>4, <3>3
        <4>2. <<x, session'>> \notin alive
          <5>1. CASE r = "device"
            <6>1. ~(session' <= session)
              BY <1>1, <5>1
            <6> QED BY <1>10, <6>1
          <5>2. CASE r # "device"
            BY <1>6, <1>8, <2>1, <4>1, <5>2 DEF StructInv, SettingUp
          <5> QED BY <5>1, <5>2
        <4> QED BY <1>12, <4>1, <4>2
      <3> QED BY <3>1, <3>2, <3>3
    <2>2. \A x \in Resources : ToCreate(x)' => ToCreate("device")' \/ session' > 0
      BY <1>8
    <2> QED BY <1>6, <2>1, <2>2 DEF SettingUp
  <1>15. Pointers'
    <2>1. ASSUME NEW x \in Held, ptr'[x] # 0
          PROVE  <<x, ptr'[x]>> \in alive'
      <3>1. CASE x = r
        BY <1>9, <2>1, <3>1
      <3>2. CASE x # r
        BY <1>5, <1>9, <1>13, <2>1, <3>2 DEF StructInv, Pointers
      <3> QED BY <3>1, <3>2
    <2>2. ASSUME NEW x \in Resources, NEW n \in Resources, NEW s \in Nat,
                 <<x, n>> \in MadeFrom, <<x, s>> \in alive'
          PROVE  <<n, s>> \in alive' /\ (ptr'[n] = s => ptr'[x] = s)
      <3>0. x # n /\ n # "device" /\ x # "device" /\ n \in Held
        BY <2>2 DEF MadeFrom, Held, Resources
      <3>1. CASE <<x, s>> \in alive
        <4>1. <<n, s>> \in alive /\ (ptr[n] = s => ptr[x] = s) /\ s > 0
          BY <1>10, <2>2, <3>1 DEF StructInv, Pointers
        <4>2. ASSUME n = r, ptr'[n] = s
              PROVE  FALSE
          <5>1. s = session /\ ToCreate(x) /\ ~ToCreate("device")
            <6>1. s = session
              BY <1>8, <1>9, <3>0, <4>1, <4>2
            <6>2. ToCreate(x) /\ ~ToCreate("device")
              BY <1>5, <1>6, <2>2, <3>0, <4>2 DEF StructInv, SettingUp
            <6> QED BY <6>1, <6>2
          <5> QED BY <2>2, <3>1, <5>1 DEF StructInv, SettingUp
        <4>3. ASSUME x = r, ptr[n] = s
              PROVE  FALSE
          <5>1. ToCreate(x) /\ ~ToCreate(n) /\ ~ToCreate("device")
            BY <1>5, <1>6, <1>7, <2>2, <3>0, <4>3
          <5>2. ptr[n] \in {0, session} /\ <<x, session>> \notin alive
            BY <2>2, <5>1 DEF StructInv, SettingUp
          <5>3. s = session
            BY <4>1, <4>3, <5>2
          <5> QED BY <3>1, <5>2, <5>3
        <4> QED BY <1>9, <1>13, <4>1, <4>2, <4>3
      <3>2. CASE <<x, s>> \notin alive
        <4>1. x = r /\ s = v /\ v = session' /\ \A k \in Needs(r) : ptr[k] # 0
          BY <1>12, <2>2, <3>2
        <4>2. ptr[n] # 0
          BY <2>2, <4>1 DEF Needs
        <4>3. ToCreate(x) /\ ~ToCreate(n)
          BY <1>5, <1>7, <2>2, <4>1
        <4>4. ptr[n] = session /\ session = s
          BY <1>8, <2>2, <3>0, <4>1, <4>2, <4>3 DEF StructInv, SettingUp
        <4>5. <<n, s>> \in alive
          BY <3>0, <4>2, <4>4 DEF StructInv, Pointers
        <4> QED BY <1>9, <1>13, <4>1, <4>5
      <3> QED BY <3>1, <3>2
    <2> QED BY <2>1, <2>2 DEF Pointers
  <1>16. \/ c = "main" /\ program # "MediaProvider"
         \/ c = "video" /\ program = "MediaProvider" /\ todo'["main"] = todo["main"]
    BY <1>1 DEF c, Creator, Actors
  <1>17. \A t \in {"video", "audio"} : t # c => todo'[t] = todo[t]
    BY <1>1 DEF Actors
  <1>18. Left(todo'["main"]) \subseteq Left(todo["main"])
    BY <1>1, <1>16 DEF m
  <1>19. Scripts'
    <2>1. InOrder(todo'["main"]) /\ InOrder(todo'[Creator'])
      <3>1. InOrder(todo["main"])
        BY DEF StructInv, Scripts
      <3> QED BY <1>1, <1>16, <3>1
    <2>2. /\ Mark \notin Left(todo'["main"])
          /\ program' = "MediaProvider" => Left(todo'["main"]) \subseteq {Start}
          /\ program' \in Copying \cup Services => Left(todo'["main"]) \cap {Put, Frames} = {}
      BY <1>18 DEF StructInv, Scripts
    <2>3. ASSUME program' \in Copying, Start \in Left(todo'["main"]), NEW t \in SendingThreads'
          PROVE  Join(t) \in Left(todo'["main"])
      <3>1. Join(t) \in Left(todo["main"]) /\ t \in {"video", "audio"}
        BY <1>18, <2>3 DEF StructInv, Scripts, SendingThreads, Copying
      <3>2. c = "main"
        BY <1>16, <2>3 DEF Copying
      <3>3. Join(t) # Create(r)
        BY <3>1, RankFacts
      <3> QED BY <1>1, <3>1, <3>2, <3>3 DEF m
    <2>4. ASSUME NEW t \in {"video", "audio"}
          PROVE  /\ Left(todo'[t]) \subseteq {Put, Frames, Mark} \cup {Create(y) : y \in Resources}
                 /\ t # Creator' => \A y \in Resources : Create(y) \notin Left(todo'[t])
      <3>1. Left(todo'[t]) \subseteq Left(todo[t])
        BY <1>1, <1>17 DEF m
      <3> QED BY <1>1, <3>1 DEF StructInv, Scripts, c
    <2>5. ASSUME NEW t \in {"video", "audio"}, NEW i \in DOMAIN todo'[t], i > 1
          PROVE  /\ t = "video" => todo'[t][i] # Mark
                 /\ t = "audio" => todo'[t][i] # Put
      <3>1. CASE t = c
        <4>1. i \in Nat /\ i + 1 \in DOMAIN m /\ i + 1 > 1 /\ todo'[t][i] = m[i + 1]
          BY <1>1, <2>5, <3>1, TailFacts DEF m, c
        <4> QED BY <3>1, <4>1 DEF StructInv, Scripts, m
      <3>2. CASE t # c
        BY <1>17, <2>5, <3>2 DEF StructInv, Scripts
      <3> QED BY <3>1, <3>2
    <2>6. /\ \A i \in DOMAIN todo'["video"] : i > 1 => todo'["video"][i] # Mark
          /\ \A i \in DOMAIN todo'["audio"] : i > 1 => todo'["audio"][i] # Put
      BY <2>5
    <2> QED BY <2>1, <2>2, <2>3, <2>4, <2>6 DEF Scripts
  <1>20. c = "main" => todo["main"] # << >> /\ Head(todo["main"]) = Create(r)
                       /\ Head(todo["main"]).do = "create" /\ m = todo["main"]
    BY RankFacts DEF c, m
  <1>21. FreesInOrder'
    <2>1. CASE c = "main"
      <3>1. FreedBefore(m)
        BY <1>20, <2>1 DEF FreedBefore, StructInv, FreesInOrder, At
      <3>2. FreedBefore(Tail(m))
        BY <1>1, <1>20, <2>1, <3>1, FreedBeforeMoves
      <3>3. todo'["main"] = Tail(m)
        BY <1>1, <2>1
      <3> QED BY <3>2, <3>3 DEF FreedBefore, FreesInOrder
    <2>2. CASE c = "video"
      <3>1. \A n \in Resources : Free(n) # Start
        BY DEF Free, Start, Step
      <3>2. Left(todo'["main"]) \subseteq {Start}
        BY <1>16, <1>18, <2>2 DEF StructInv, Scripts
      <3>3. \A i \in DOMAIN todo'["main"] : todo'["main"][i] = Start
        BY <3>2 DEF Left
      <3> QED BY <3>1, <3>3 DEF FreesInOrder
    <2> QED BY <1>1, <2>1, <2>2
  <1>22. Joined'
    <2> SUFFICES ASSUME program \in Copying, NEW t \in {"video", "audio"}, todo'[t] # << >>
                 PROVE  FALSE
      BY DEF Joined
    <2>1. c = "main" /\ todo'[t] = todo[t]
      BY <1>16, <1>17 DEF Copying
    <2>2. Rank(Start) <= Rank(Create(r))
      BY <1>1, <1>20, <2>1 DEF StructInv, Joined
    <2>3. Rank(Create(r)) \in 1..6 /\ Rank(Start) = 7
      BY RankFacts
    <2> QED BY <2>2, <2>3
  <1>23. Ownership'
    <2>1. (Tidy' <=> Tidy) /\ (Stopping' <=> Stopping)
      BY DEF Tidy, Stopping, StartedTwice
    <2>2. program \in Samples => c = "main"
      BY <1>16 DEF Samples
    <2>3. ASSUME Tidy, NEW x \in alive', x[1] \in Held
          PROVE  ptr'[x[1]] = x[2]
      <3>1. CASE x \in alive
        <4>1. ptr[x[1]] = x[2] /\ x = <<x[1], x[2]>>
          BY <1>10, <2>3, <3>1 DEF StructInv, Ownership
        <4>2. x[2] > 0
          BY <1>10, <3>1, <4>1
        <4>3. x[1] # r
          <5>1. ASSUME x[1] = r
                PROVE  FALSE
            <6>1. ptr[r] = 0
              BY <1>5, <2>3, <5>1 DEF StructInv, Ownership
            <6> QED BY <4>1, <4>2, <5>1, <6>1
          <5> QED BY <5>1
        <4> QED BY <1>5, <1>9, <2>3, <4>1, <4>3
      <3>2. CASE x \notin alive
        BY <1>9, <1>12, <3>2
      <3> QED BY <3>1, <3>2
    <2>4. ASSUME Tidy, NEW x \in Held, ToCreate(x)'
          PROVE  ptr'[x] = 0
      <3>1. ToCreate(x) /\ x # r /\ x \in Resources
        BY <1>4, <1>5, <2>4
      <3> QED BY <1>9, <2>4, <3>1 DEF StructInv, Ownership
    <2>5. ~(Stopping /\ program = "KvsService")
      BY <1>5 DEF StructInv, Ownership
    <2>6. program \in Samples => \A x \in Held : Free(x) \in Left(todo'["main"])
      <3>1. program \in Samples => \A x \in Held : Free(x) \in Left(todo["main"])
        BY <1>20, <2>2 DEF StructInv, Ownership, At
      <3>2. \A x \in Held : Free(x) # Create(r)
        BY RankFacts
      <3> QED BY <1>1, <1>20, <2>2, <3>1, <3>2
    <2>7. Stopping' => \A x \in Held : ptr'[x] = 0 \/ Free(x) \in Left(todo'["main"])
      BY <2>1, <2>5, <2>6 DEF Stopping
    <2>8. ASSUME program \in Checked
          PROVE  /\ \A s \in Nat : <<"streamCallbacks", s>> \in alive' => ptr'["callbacks"] = s
                 /\ ToCreate("streamCallbacks")' /\ ~ToCreate("callbacks")' => ptr'["callbacks"] = session'
      <3>0. /\ "callbacks" \in Held /\ "callbacks" \in Resources /\ "streamCallbacks" \in Resources
            /\ Tidy /\ v = session'
        BY <2>8 DEF Held, Resources, Tidy, Checked
      <3>1. Rank(Create("callbacks")) < Rank(Create("streamCallbacks"))
            /\ Rank(Create("callbacks")) \in 1..6 /\ Rank(Create("streamCallbacks")) \in 1..6
        BY <3>0, RankFacts
      <3>2. ASSUME NEW s \in Nat, <<"streamCallbacks", s>> \in alive'
            PROVE  ptr'["callbacks"] = s
        <4>1. CASE <<"streamCallbacks", s>> \in alive
          <5>1. ptr["callbacks"] = s /\ s > 0
            BY <1>10, <2>8, <4>1 DEF StructInv, Ownership
          <5>2. r # "callbacks"
            <6>1. ToCreate("callbacks") => ptr["callbacks"] = 0
              BY <3>0 DEF StructInv, Ownership
            <6> QED BY <1>5, <5>1, <6>1
          <5> QED BY <1>9, <3>0, <5>1, <5>2
        <4>2. CASE <<"streamCallbacks", s>> \notin alive
          <5>1. r = "streamCallbacks" /\ s = session'
            BY <1>12, <3>2, <4>2
          <5>2. ~ToCreate("callbacks")
            <6>1. Create("callbacks") \notin Left(Tail(m))
              <7>1. ~(Rank(Create(r)) < Rank(Create("callbacks")))
                BY <3>1, <5>1
              <7> QED BY <1>5, <3>0, <7>1
            <6> QED BY <1>1, <1>3, <3>0, <5>1, <6>1 DEF ToCreate, c, m
          <5>3. ptr["callbacks"] = session
            BY <1>5, <2>8, <5>1, <5>2 DEF StructInv, Ownership
          <5> QED BY <1>8, <1>9, <3>0, <5>1, <5>3
        <4> QED BY <4>1, <4>2
      <3>3. ASSUME ToCreate("streamCallbacks")', ~ToCreate("callbacks")'
            PROVE  ptr'["callbacks"] = session'
        <4>1. CASE r = "callbacks"
          BY <1>9, <3>0, <4>1
        <4>2. CASE r # "callbacks"
          <5>1. ToCreate("streamCallbacks") /\ ~ToCreate("callbacks")
            BY <1>4, <3>0, <3>3, <4>2
          <5>2. ptr["callbacks"] = session
            BY <2>8, <5>1 DEF StructInv, Ownership
          <5>3. r # "device"
            BY <1>5, <3>0, <5>1 DEF StructInv, SettingUp
          <5> QED BY <1>8, <1>9, <3>0, <4>2, <5>2, <5>3
        <4> QED BY <4>1, <4>2
      <3> QED BY <3>2, <3>3
    <2> QED BY <2>1, <2>3, <2>4, <2>5, <2>6, <2>7, <2>8 DEF Ownership
  <1> QED BY <1>1, <1>8, <1>9, <1>11, <1>14, <1>15, <1>19, <1>21, <1>22, <1>23 DEF StructInv

(* Main frees an object.                                                   *)
LEMMA FreeKeeps ==
  ASSUME ProgramTypes, StructInv, FreeObject
  PROVE  /\ StructInv' /\ todo' \in [Actors -> Seq(AllSteps)]
         /\ ptr' \in [Resources -> Nat] /\ alive' \subseteq Resources \X (1..session')
  <1> DEFINE m == todo["main"]
             r == Head(m).what
  <1>0. /\ m # << >> /\ Head(m).do = "free" /\ alive' = alive \ FreedWith(r)
        /\ ptr' = [ptr EXCEPT ![r] = 0] /\ todo' = [todo EXCEPT !["main"] = Tail(@)]
        /\ UNCHANGED <<program, session, streamHandle, handled>>
    BY DEF FreeObject, At, Advance
  <1>1. /\ m \in Seq(AllSteps) /\ Head(m) \in AllSteps /\ InOrder(m) /\ Tail(m) \in Seq(AllSteps)
        /\ Left(m) = {Head(m)} \cup Left(Tail(m)) /\ InOrder(Tail(m)) /\ Left(m) \subseteq AllSteps
        /\ todo'["main"] = Tail(m) /\ \A t \in {"video", "audio"} : todo'[t] = todo[t]
        /\ todo' \in [Actors -> Seq(AllSteps)]
    <2>1. m \in Seq(AllSteps) /\ InOrder(m)
      BY DEF ProgramTypes, StructInv, Scripts, Actors
    <2>2. /\ Head(m) \in AllSteps /\ Tail(m) \in Seq(AllSteps) /\ Left(m) \subseteq AllSteps
          /\ Left(m) = {Head(m)} \cup Left(Tail(m)) /\ InOrder(Tail(m))
      BY <1>0, <2>1, TailFacts, TailInOrder
    <2>3. todo'["main"] = Tail(m) /\ \A t \in {"video", "audio"} : todo'[t] = todo[t]
      BY <1>0 DEF ProgramTypes, Actors
    <2>4. todo' \in [Actors -> Seq(AllSteps)]
      BY <1>0, <2>2 DEF ProgramTypes
    <2> QED BY <2>1, <2>2, <2>3, <2>4
  <1>2. r \in Held /\ Head(m) = Free(r) /\ Held \subseteq Resources
    BY <1>0, <1>1, StepFacts DEF Held
  <1>3. \A x \in Left(m) : x.do = "free"
    <2> SUFFICES ASSUME NEW x \in Left(m) PROVE x.do = "free"
      OBVIOUS
    <2>1. Rank(Head(m)) = 12
      BY <1>2, RankFacts
    <2>2. CASE x = Head(m)
      BY <1>0, <2>2
    <2>3. CASE x \in Left(Tail(m))
      <3>1. Rank(x) \in Nat /\ 12 <= Rank(x) /\ x \in AllSteps
        BY <1>0, <1>1, <2>1, <2>3, TailInOrder, StepFacts
      <3>2. x.do \in {"create", "join", "stop", "start", "put", "frames", "mark", "load"} => Rank(x) <= 11
        <4>1. x.do = "create" => Rank(x) \in 1..6
          BY <3>1, StepFacts
        <4>2. x.do = "join" => Rank(x) = 10
          BY <3>1, StepFacts
        <4>3. x.do \in {"stop", "start", "put", "frames", "mark", "load"} =>
                x \in {Stop, Start, Put, Frames, Mark, Load}
          BY <3>1, StepFacts
        <4>4. Rank(Stop) = 11 /\ Rank(Start) = 7 /\ Rank(Put) = 8 /\ Rank(Frames) = 9
              /\ Rank(Mark) = 8 /\ Rank(Load) = 0
          BY RankFacts
        <4> QED BY <4>1, <4>2, <4>3, <4>4
      <3> QED BY <3>1, <3>2, StepFacts
    <2> QED BY <1>1, <2>2, <2>3
  <1>4. Left(Tail(m)) \subseteq Left(m)
    BY <1>1
  <1>5. program # "MediaProvider"
    <2>1. Start.do # "free"
      BY DEF Start, Step
    <2> QED BY <1>1, <1>3, <2>1 DEF StructInv, Scripts
  <1>6. \A x \in Resources : ~ToCreate(x)'
    <2>1. \A x \in Resources : Create(x).do # "free"
      BY RankFacts
    <2>2. Creator' = "main"
      BY <1>0, <1>5 DEF Creator
    <2> QED BY <1>1, <1>3, <1>4, <2>1, <2>2 DEF ToCreate
  <1>7. /\ ptr \in [Resources -> Nat] /\ ptr' \in [Resources -> Nat] /\ ptr'[r] = 0
        /\ \A x \in Resources : x # r => ptr'[x] = ptr[x]
    BY <1>0, <1>2 DEF ProgramTypes
  <1>8. /\ alive \subseteq Resources \X (1..session) /\ alive' \subseteq alive
        /\ \A x, s : <<x, s>> \in alive => x \in Resources /\ s \in Nat /\ s > 0
    BY <1>0 DEF ProgramTypes
  <1> HIDE DEF m, r
  <1>9. /\ <<r, ptr[r]>> \notin alive'
        /\ \A x, s : <<x, s>> \in alive /\ x # "streamCallbacks" =>
             <<x, s>> \in alive' \/ (x = r /\ s = ptr[r])
        /\ r = "callbacks" => <<"streamCallbacks", ptr[r]>> \notin alive'
    <2>1. /\ <<r, ptr[r]>> \in FreedWith(r)
          /\ \A x, s : <<x, s>> \in FreedWith(r) /\ x # "streamCallbacks" => x = r /\ s = ptr[r]
          /\ r = "callbacks" => <<"streamCallbacks", ptr[r]>> \in FreedWith(r)
      BY DEF FreedWith
    <2> QED BY <1>0, <2>1
  <1>10. Scripts'
    <2>1. InOrder(todo'["main"]) /\ InOrder(todo'[Creator'])
      BY <1>0, <1>1, <1>5 DEF Creator
    <2>2. /\ Mark.do # "free" /\ Put.do # "free" /\ Frames.do # "free" /\ Start.do # "free"
      BY DEF Mark, Put, Frames, Start, Step
    <2>3. Left(todo'["main"]) \cap {Mark, Put, Frames, Start} = {}
      BY <1>1, <1>3, <1>4, <2>2
    <2> QED BY <1>0, <1>1, <1>5, <2>1, <2>3 DEF StructInv, Scripts, Creator
  <1>11. SettingUp'
    BY <1>6, SetUp
  <1>12. \A x \in Resources : <<x, r>> \in MadeFrom => ptr[x] = 0
    <2> SUFFICES ASSUME NEW x \in Resources, <<x, r>> \in MadeFrom
                 PROVE  ptr[x] = 0
      OBVIOUS
    <2>1. 1 \in DOMAIN m /\ m[1] = Free(r)
      BY <1>0, <1>1, <1>2, TailFacts DEF m
    <2>2. ~\E j \in 1..(1 - 1) : m[j] = Free(x)
      OBVIOUS
    <2> QED BY <1>2, <2>1, <2>2 DEF StructInv, FreesInOrder, m
  <1>13. Pointers'
    <2>1. ASSUME NEW x \in Held, ptr'[x] # 0
          PROVE  <<x, ptr'[x]>> \in alive'
      <3>1. x # r /\ x \in Resources /\ x # "streamCallbacks"
        BY <1>2, <1>7, <2>1 DEF Held
      <3>2. <<x, ptr[x]>> \in alive /\ ptr'[x] = ptr[x]
        BY <1>7, <2>1, <3>1 DEF StructInv, Pointers
      <3> QED BY <1>9, <3>1, <3>2
    <2>2. ASSUME NEW x \in Resources, NEW n \in Resources, NEW s \in Nat,
                 <<x, n>> \in MadeFrom, <<x, s>> \in alive'
          PROVE  <<n, s>> \in alive' /\ (ptr'[n] = s => ptr'[x] = s)
      <3>0. x # n /\ n # "streamCallbacks" /\ x # "streamCallbacks"
        BY <2>2 DEF MadeFrom
      <3>1. /\ <<x, s>> \in alive /\ <<n, s>> \in alive /\ (ptr[n] = s => ptr[x] = s) /\ s > 0
        BY <1>8, <2>2 DEF StructInv, Pointers
      <3>2. <<n, s>> \in alive'
        <4>1. ~(n = r /\ s = ptr[r])
          BY <1>12, <2>2, <3>1
        <4> QED BY <1>9, <3>0, <3>1, <4>1
      <3>3. ASSUME ptr'[n] = s
            PROVE  ptr'[x] = s
        <4>1. n # r
          BY <1>7, <3>1, <3>3
        <4>2. ptr[x] = s
          BY <1>7, <3>1, <3>3, <4>1
        <4>3. x # r
          BY <1>9, <2>2, <4>2
        <4> QED BY <1>7, <4>2, <4>3
      <3> QED BY <3>2, <3>3
    <2> QED BY <2>1, <2>2 DEF Pointers
  <1>14. FreesInOrder'
    <2> SUFFICES ASSUME NEW x \in Resources, NEW n \in Resources, NEW i \in DOMAIN Tail(m),
                        <<x, n>> \in MadeFrom, Tail(m)[i] = Free(n),
                        ~\E j \in 1..(i - 1) : Tail(m)[j] = Free(x)
                 PROVE  ptr'[x] = 0 /\ Tail(m) # << >> /\ Head(Tail(m)).do = "free"
      BY <1>1 DEF FreesInOrder, At
    <2>1. /\ i \in Nat /\ i + 1 \in DOMAIN m /\ m[i + 1] = Free(n) /\ Len(m) \in Nat
          /\ DOMAIN m = 1..Len(m) /\ DOMAIN Tail(m) = 1..(Len(m) - 1)
      BY <1>0, <1>1, TailFacts DEF m
    <2>2. Tail(m) # << >> /\ Head(Tail(m)).do = "free"
      <3>1. Tail(m) # << >>
        BY <1>1, <2>1
      <3>2. Head(Tail(m)) \in Left(Tail(m))
        BY <1>1, <3>1, TailFacts
      <3> QED BY <1>3, <1>4, <3>1, <3>2
    <2>3. ptr'[x] = 0
      <3>1. CASE ptr[x] = 0
        BY <1>7, <3>1
      <3>2. CASE ptr[x] # 0
        <4>1. PICK j \in 1..((i + 1) - 1) : m[j] = Free(x)
          BY <2>1, <3>2 DEF StructInv, FreesInOrder, m
        <4>2. CASE j = 1
          <5>1. Free(x) = Free(r)
            BY <1>0, <1>1, <1>2, <4>1, <4>2, TailFacts DEF m
          <5>2. x = r
            BY <5>1 DEF Free, Step
          <5> QED BY <1>7, <5>2
        <4>3. CASE j # 1
          <5>1. j - 1 \in 1..(i - 1) /\ j - 1 \in DOMAIN Tail(m) /\ (j - 1) + 1 = j
            BY <2>1, <4>1, <4>3
          <5>2. Tail(m)[j - 1] = m[j]
            BY <1>0, <1>1, <5>1, TailFacts DEF m
          <5> QED BY <4>1, <5>1, <5>2
        <4> QED BY <4>2, <4>3
      <3> QED BY <3>1, <3>2
    <2> QED BY <2>2, <2>3
  <1>15. Joined'
    <2> SUFFICES ASSUME program \in Copying, NEW t \in {"video", "audio"}, todo[t] # << >>
                 PROVE  FALSE
      BY <1>0, <1>1 DEF Joined
    <2>1. Join(t) \in Left(m)
      BY DEF StructInv, Joined, m
    <2>2. Join(t).do # "free"
      BY DEF Join, Step
    <2> QED BY <1>3, <2>1, <2>2
  <1>16. Ownership'
    <2>1. (Tidy' <=> Tidy) /\ (Stopping' <=> Stopping)
      BY <1>0 DEF Tidy, Stopping, StartedTwice
    <2>2. ASSUME Tidy, NEW x \in alive', x[1] \in Held
          PROVE  ptr'[x[1]] = x[2]
      <3>1. ptr[x[1]] = x[2] /\ x = <<x[1], x[2]>>
        BY <1>8, <2>2 DEF StructInv, Ownership
      <3>2. x[1] # r
        BY <1>9, <2>2, <3>1
      <3> QED BY <1>2, <1>7, <2>2, <3>1, <3>2
    <2>3. ASSUME Stopping, NEW x \in Held
          PROVE  ptr'[x] = 0 \/ Free(x) \in Left(todo'["main"])
      <3>1. CASE x = r
        BY <1>7, <3>1
      <3>2. CASE x # r
        <4>1. ptr[x] = 0 \/ Free(x) \in Left(m)
          BY <2>3 DEF StructInv, Ownership, m
        <4>2. Free(x) # Head(m) /\ ptr'[x] = ptr[x]
          BY <1>2, <1>7, <2>3, <3>2 DEF Free, Step
        <4> QED BY <1>1, <4>1, <4>2
      <3> QED BY <3>1, <3>2
    <2>4. todo'["main"] # << >> => At("main", "free")'
      <3>1. ASSUME Tail(m) # << >>
            PROVE  Head(Tail(m)).do = "free"
        <4>1. Head(Tail(m)) \in Left(Tail(m))
          BY <1>1, <3>1, TailFacts
        <4> QED BY <1>3, <1>4, <4>1
      <3> QED BY <1>1, <3>1 DEF At
    <2>5. ASSUME program \in Checked, NEW s \in Nat, <<"streamCallbacks", s>> \in alive'
          PROVE  ptr'["callbacks"] = s
      <3>1. ptr["callbacks"] = s
        BY <1>8, <2>5 DEF StructInv, Ownership
      <3>2. r # "callbacks" /\ "callbacks" \in Resources
        BY <1>9, <2>5, <3>1 DEF Resources
      <3> QED BY <1>7, <3>1, <3>2
    <2>6. Held \subseteq Resources /\ "streamCallbacks" \in Resources
      BY DEF Held, Resources
    <2> QED BY <1>0, <1>6, <2>1, <2>2, <2>3, <2>4, <2>5, <2>6 DEF Ownership
  <1>17. alive' \subseteq Resources \X (1..session')
    BY <1>0, <1>8
  <1> QED BY <1>1, <1>7, <1>10, <1>11, <1>13, <1>14, <1>15, <1>16, <1>17 DEF StructInv

-----------------------------------------------------------------------------
(* Every initial state satisfies the invariant.                            *)
LEMMA InitProgram ==
  ASSUME Init
  PROVE  ProgramInv
  <1>1. /\ program \in Programs /\ todo["main"] = Script[program]
        /\ todo["video"] = << >> /\ todo["audio"] = << >>
        /\ todo = [a \in Actors |-> IF a = "main" THEN Script[program] ELSE << >>]
        /\ ptr = [r \in Resources |-> 0] /\ alive = {} /\ session = 0 /\ handled = << >>
        /\ mQueue = << >> /\ expired = FALSE /\ gIsFirstVideoFramePut = FALSE /\ media = NoMedia
    BY DEF Init, Actors
  <1> DEFINE m == todo["main"]
  <1>2. /\ SoundScript(m)
        /\ \/ program \in Services /\ m = << >> /\ Left(m) = {}
           \/ /\ program \in Samples
              /\ Left(m) \subseteq CreateSteps \cup FreeSteps
                   \cup {Load, Start, Frames, Stop, Join("video"), Join("audio")}
              /\ CreateSteps \cup FreeSteps \subseteq Left(m)
              /\ program \in Copying => Frames \notin Left(m)
              /\ \A t \in SendingThreads : Join(t) \in Left(m)
    <2>1. CASE program = "AudioVideo" \/ program = "AudioVideoNew"
      <3>1. SoundScript(m)
            /\ Left(m) = {Load, Start, Join("video"), Join("audio"), Stop} \cup CreateSteps \cup FreeSteps
        BY <1>1, <2>1, ScriptsSound DEF Script
      <3>2. SendingThreads = {"video", "audio"}
        BY <2>1 DEF SendingThreads
      <3>3. /\ Frames \notin CreateSteps \cup FreeSteps
            /\ Frames \notin {Load, Start, Join("video"), Join("audio"), Stop}
        BY DEF Frames, CreateSteps, FreeSteps, Load, Start, Join, Stop, Create, Free, Step
      <3> QED BY <2>1, <3>1, <3>2, <3>3 DEF Samples
    <2>2. CASE program = "AudioOnly"
      <3>1. SoundScript(m)
            /\ Left(m) = {Load, Start, Join("audio"), Stop} \cup CreateSteps \cup FreeSteps
        BY <1>1, <2>2, ScriptsSound DEF Script
      <3>2. SendingThreads = {"audio"}
        BY <2>2 DEF SendingThreads
      <3>3. /\ Frames \notin CreateSteps \cup FreeSteps
            /\ Frames \notin {Load, Start, Join("audio"), Stop}
        BY DEF Frames, CreateSteps, FreeSteps, Load, Start, Join, Stop, Create, Free, Step
      <3> QED BY <2>2, <3>1, <3>2, <3>3 DEF Samples
    <2>3. CASE program = "VideoRealtime" \/ program = "VideoOffline"
      <3>1. SoundScript(m) /\ CreateSteps \cup FreeSteps \subseteq Left(m)
            /\ Left(m) \subseteq CreateSteps \cup {Start, Frames, Stop} \cup FreeSteps
        BY <1>1, <2>3, ScriptsSound DEF Script
      <3>2. SendingThreads = {} /\ program \notin Copying
        BY <2>3 DEF SendingThreads, Copying
      <3> QED BY <2>3, <3>1, <3>2 DEF Samples
    <2>4. CASE program \in Services
      <3>1. m = << >>
        BY <1>1, <2>4 DEF Script, Services
      <3> QED BY <2>4, <3>1, PiecesSound
    <2> QED BY <1>1, <2>1, <2>2, <2>3, <2>4 DEF Programs, Samples
  <1>3. m \in Seq(AllSteps) /\ InOrder(m) /\ FreedBefore(m)
    BY <1>2 DEF SoundScript
  <1> HIDE DEF m
  <1>4. SoundScript(<< >>) /\ Left(<< >>) = {} /\ << >> \in Seq(AllSteps)
    BY PiecesSound
  <1>5. program \in Samples => program \notin Services /\ Creator = "main"
    BY DEF Samples, Services, Creator
  <1>6. \A r \in Held : r \in Resources /\ ptr[r] = 0
    BY <1>1 DEF Held
  <1>7. ProgramTypes
    <2>1. todo \in [Actors -> Seq(AllSteps)]
      BY <1>1, <1>3, <1>4 DEF m
    <2>2. ptr \in [Resources -> Nat] /\ session \in Nat /\ alive \subseteq Resources \X (1..session)
      BY <1>1
    <2>3. handled \in Seq({"cmd1", "cmd2"}) /\ mQueue \in Seq({"cmd1", "cmd2"})
      BY <1>1
    <2> QED BY <1>1, <2>1, <2>2, <2>3 DEF ProgramTypes
  <1>8. Scripts
    <2>1. InOrder(todo[Creator])
      BY <1>1, <1>3, <1>4 DEF SoundScript, Creator, m
    <2>2. Mark \notin Left(m) /\ Put \notin Left(m)
      <3>1. \A x \in CreateSteps \cup FreeSteps
                       \cup {Load, Start, Frames, Stop, Join("video"), Join("audio")} : x # Mark /\ x # Put
        BY DEF CreateSteps, FreeSteps, Create, Free, Load, Start, Frames, Stop, Join, Mark, Put, Step
      <3> QED BY <1>2, <3>1
    <2>3. /\ program = "MediaProvider" => Left(m) \subseteq {Start}
          /\ program \in Copying \cup Services => Left(m) \cap {Put, Frames} = {}
          /\ program \in Copying => \A t \in SendingThreads : Join(t) \in Left(m)
      BY <1>2, <2>2 DEF Services, Samples, Copying
    <2> QED BY <1>1, <1>3, <1>4, <2>1, <2>2, <2>3 DEF Scripts, m
  <1>9. SettingUp
    <2>1. CASE program \in Samples
      <3>1. \A r \in Resources : ToCreate(r)
        BY <1>1, <1>2, <1>5, <2>1 DEF ToCreate, CreateSteps, m, Samples, Services
      <3>2. "device" \in Resources
        BY DEF Resources
      <3> QED BY <3>1, <3>2 DEF SettingUp
    <2>2. CASE program \in Services
      <3>1. \A r \in Resources : ~ToCreate(r)
        BY <1>1, <1>2, <1>4, <1>5, <2>2 DEF ToCreate, m, Creator
      <3>2. "device" \in Resources
        BY DEF Resources
      <3> QED BY <3>1, <3>2 DEF SettingUp
    <2> QED BY <1>1, <2>1, <2>2 DEF Programs
  <1>10. Pointers
    BY <1>1, <1>6 DEF Pointers
  <1>11. FreesInOrder
    BY <1>3 DEF FreesInOrder, FreedBefore, m
  <1>12. Joined
    BY <1>1 DEF Joined
  <1>13. Ownership
    <2>1. program \in Samples => \A r \in Held : Free(r) \in Left(todo["main"])
      BY <1>2, <1>5 DEF FreeSteps, m
    <2>2. program = "KvsService" => \A r \in Resources : ~ToCreate(r)
      <3>1. program = "KvsService" => program \in Services /\ program \notin Samples /\ Creator = "main"
        BY DEF Services, Samples, Creator
      <3> QED BY <1>2, <3>1 DEF ToCreate, m
    <2>3. program \in Checked => ToCreate("callbacks")
      <3>1. program \in Checked => program \in Samples /\ "callbacks" \in Resources
        BY DEF Checked, Resources
      <3> QED BY <1>2, <1>5, <3>1 DEF ToCreate, m, CreateSteps
    <2> QED BY <1>1, <1>6, <2>1, <2>2, <2>3 DEF Ownership
  <1>14. FlagInv
    BY <1>1 DEF FlagInv, At
  <1> QED BY <1>1, <1>7, <1>8, <1>9, <1>10, <1>11, <1>12, <1>13, <1>14 DEF ProgramInv, MediaInv

(* An actor other than the creator creates nothing.                        *)
LEMMA OnlyCreatorCreates ==
  ASSUME ProgramTypes, StructInv, NEW a \in Actors, At(a, "create")
  PROVE  a = Creator
  <1>1. /\ todo[a] # << >> /\ Head(todo[a]).do = "create" /\ Head(todo[a]) \in Left(todo[a])
        /\ Head(todo[a]) \in AllSteps
    BY TailFacts DEF At, ProgramTypes
  <1>2. PICK r \in Resources : Head(todo[a]) = Create(r)
    BY <1>1, StepFacts
  <1>3. a # "main" => a = Creator
    BY <1>1, <1>2 DEF StructInv, Scripts, Actors
  <1>4. a = "main" => a = Creator
    <2>1. Create(r) # Start
      BY RankFacts
    <2> QED BY <1>1, <1>2, <2>1 DEF StructInv, Scripts, Creator
  <1> QED BY <1>3, <1>4

(* Every object creation preserves the structure.                          *)
LEMMA CreateObjectKeeps ==
  ASSUME ProgramTypes, StructInv, CreateObject
  PROVE  ProgramTypes' /\ StructInv'
  <1>1. PICK a \in Actors :
          /\ At(a, "create")
          /\ \/ CreateDeviceInfo(a)
             \/ CreateStreamInfoProvider(a)
             \/ \E r \in {"callbacks", "client", "stream"} : CreateProducer(a, r)
             \/ CreateStreamCallbacks(a)
          /\ UNCHANGED <<program, streamHandle, expired, gIsFirstVideoFramePut, firstFrame,
                         gEventsEnabled, videoPut, ready, mQueue, accepted, handled>>
    BY DEF CreateObject
  <1>2. a = Creator /\ todo[a] # << >>
    BY <1>1, OnlyCreatorCreates DEF At
  <1>3. ASSUME NEW r \in Resources, NEW v, Head(todo[a]) = Create(r),
               session' = IF r = "device" THEN session + 1 ELSE session,
               \/ v = session' /\ (\A n \in Needs(r) : ptr[n] # 0) /\ alive' = alive \cup {<<r, v>>}
               \/ /\ v = 0 /\ r \in {"callbacks", "client", "stream"} /\ program \notin Checked
                  /\ alive' = alive,
               ptr' = [ptr EXCEPT ![r] = v], Advance(a)
        PROVE  ProgramTypes' /\ StructInv'
    <2>1. /\ StructInv' /\ todo' \in [Actors -> Seq(AllSteps)] /\ session' \in Nat
          /\ ptr' \in [Resources -> Nat] /\ alive' \subseteq Resources \X (1..session')
      BY <1>1, <1>2, <1>3, CreateKeeps DEF Advance
    <2> QED BY <1>1, <2>1 DEF ProgramTypes
  <1>4. CASE CreateDeviceInfo(a)
    <2>1. "device" \in Resources /\ Needs("device") = {}
      BY DEF Resources, Needs, MadeFrom
    <2> QED BY <1>3, <1>4, <2>1 DEF CreateDeviceInfo
  <1>5. CASE CreateStreamInfoProvider(a)
    <2>1. "streamInfo" \in Resources /\ Needs("streamInfo") = {}
      BY DEF Resources, Needs, MadeFrom
    <2> QED BY <1>3, <1>5, <2>1 DEF CreateStreamInfoProvider
  <1>6. CASE CreateStreamCallbacks(a)
    <2>1. "streamCallbacks" \in Resources /\ Needs("streamCallbacks") = {}
      BY DEF Resources, Needs, MadeFrom
    <2> QED BY <1>3, <1>6, <2>1 DEF CreateStreamCallbacks
  <1>7. ASSUME NEW r \in {"callbacks", "client", "stream"}, CreateProducer(a, r)
        PROVE  ProgramTypes' /\ StructInv'
    <2>0. r \in Resources /\ r \in Held /\ r # "device" /\ Head(todo[a]) = Create(r) /\ session' = session
      BY <1>7 DEF Resources, Held, CreateProducer
    <2>1. CASE /\ \A n \in Needs(r) : ptr[n] # 0
               /\ ptr' = [ptr EXCEPT ![r] = session] /\ alive' = alive \cup {<<r, session>>}
               /\ Advance(a)
      BY <1>3, <2>0, <2>1
    <2>2. CASE ptr' = [ptr EXCEPT ![r] = 0] /\ Failed(a) /\ alive' = alive
      <3>1. CASE program \notin Checked
        <4>1. Advance(a)
          BY <2>2, <3>1 DEF Failed
        <4> QED BY <1>3, <2>0, <2>2, <3>1, <4>1
      <3>2. CASE program \in Checked
        <4>1. program \in Samples /\ Tidy /\ a = "main"
          BY <1>2, <3>2 DEF Checked, Tidy, Creator, Samples
        <4>2. ToCreate(r)
          <5>1. Head(todo[a]) \in Left(todo[a])
            BY <1>2, TailFacts DEF ProgramTypes
          <5> QED BY <1>2, <2>0, <5>1 DEF ToCreate
        <4>3. ptr[r] = 0
          BY <2>0, <4>1, <4>2 DEF StructInv, Ownership
        <4>4. ptr' = ptr
          BY <2>0, <2>2, <4>3 DEF ProgramTypes
        <4>5. todo' = [todo EXCEPT !["main"] = CleanUp]
          BY <2>2, <3>2, <4>1 DEF Failed, Abort
        <4>6. Head(todo["main"]).do = "create"
          BY <1>1, <4>1 DEF At
        <4>7. StructInv'
          BY <1>1, <1>2, <2>0, <2>2, <4>1, <4>4, <4>5, <4>6, MainAborts
        <4>8. todo' \in [Actors -> Seq(AllSteps)]
          BY <4>5, PiecesSound DEF ProgramTypes, SoundScript
        <4> QED BY <1>1, <2>0, <2>2, <4>4, <4>7, <4>8 DEF ProgramTypes
      <3> QED BY <3>1, <3>2
    <2> QED BY <1>7, <2>1, <2>2 DEF CreateProducer
  <1> QED BY <1>1, <1>4, <1>5, <1>6, <1>7

(* Every step of the programs preserves types and structure.               *)
LEMMA NextKeepsStruct ==
  ASSUME ProgramTypes, StructInv, [Next]_vars
  PROVE  ProgramTypes' /\ StructInv'
  <1> DEFINE same == UNCHANGED <<program, ptr, alive, session, streamHandle, handled>>
             okTypes == /\ mQueue' \in Seq({"cmd1", "cmd2"})
                        /\ expired' \in BOOLEAN /\ gIsFirstVideoFramePut' \in BOOLEAN
  <1>0. /\ \A a \in Actors : todo[a] \in Seq(AllSteps)
        /\ mQueue \in Seq({"cmd1", "cmd2"}) /\ expired \in BOOLEAN
        /\ gIsFirstVideoFramePut \in BOOLEAN /\ {"main", "video", "audio"} = Actors
    BY DEF ProgramTypes, Actors
  <1>1. \A a \in Actors : todo[a] # << >> =>
          /\ Tail(todo[a]) \in Seq(AllSteps) /\ <<Put>> \o todo[a] \in Seq(AllSteps)
          /\ <<Mark>> \o Tail(todo[a]) \in Seq(AllSteps) /\ Head(todo[a]) \in AllSteps
    BY <1>0, TailFacts, PushFacts, RankFacts
  <1>2. ASSUME NEW a \in Actors, NEW q, q \in Seq(AllSteps), todo' = [todo EXCEPT ![a] = q], same, okTypes
        PROVE  ProgramTypes'
    BY <1>2 DEF ProgramTypes
  <1>3. ASSUME same, okTypes, At("main", "load") \/ At("main", "join") \/ At("main", "stop")
                               \/ At("main", "frames") \/ At("main", "put"),
               At("main", "join") => todo[Head(todo["main"]).what] = << >>, Advance("main")
        PROVE  ProgramTypes' /\ StructInv'
    <2>1. todo' = [todo EXCEPT !["main"] = Tail(todo["main"])]
      BY <1>3 DEF Advance
    <2>2. todo["main"] # << >> /\ Head(todo["main"]).do \notin {"create", "free", "start"}
      BY <1>3 DEF At
    <2>3. Head(todo["main"]).do = "join" => todo[Head(todo["main"]).what] = << >>
      BY <1>3, <2>2 DEF At
    <2>4. StructInv'
      BY <1>3, <2>1, <2>2, <2>3, MainKeeps
    <2> QED BY <1>0, <1>1, <1>2, <1>3, <2>1, <2>2, <2>4
  <1>4. ASSUME same, okTypes, program \in Samples,
               At("main", "load") \/ At("main", "stop") \/ At("main", "frames") \/ At("main", "put"),
               todo' = [todo EXCEPT !["main"] = CleanUp]
        PROVE  ProgramTypes' /\ StructInv'
    <2>1. todo["main"] # << >> /\ Head(todo["main"]).do \notin {"free", "start", "join"}
      BY <1>4 DEF At
    <2>2. StructInv'
      BY <1>4, <2>1, MainAborts
    <2>3. CleanUp \in Seq(AllSteps)
      BY PiecesSound DEF SoundScript
    <2> QED BY <1>0, <1>2, <1>4, <2>2, <2>3
  <1>5. ASSUME NEW t \in {"video", "audio"}, NEW q, same, okTypes, todo[t] # << >>,
               Head(todo[t]).do # "create", todo' = [todo EXCEPT ![t] = q],
               \/ q = Tail(todo[t])
               \/ q = <<Put>> \o todo[t] /\ Head(todo[t]) = Frames
               \/ q = <<Mark>> \o Tail(todo[t]) /\ t = "video" /\ program # "MediaProvider"
        PROVE  ProgramTypes' /\ StructInv'
    <2>1. StructInv'
      BY <1>5, ThreadMoves
    <2>2. q \in Seq(AllSteps) /\ t \in Actors
      BY <1>0, <1>1, <1>5
    <2> QED BY <1>2, <1>5, <2>1, <2>2
  <1>6. ASSUME UNCHANGED todo, same, okTypes
        PROVE  ProgramTypes' /\ StructInv'
    <2>1. ProgramTypes'
      BY <1>6 DEF ProgramTypes
    <2>2. Creator' = Creator /\ SendingThreads' = SendingThreads
      BY <1>6 DEF Creator, SendingThreads
    <2>3. \A r \in Resources : ToCreate(r)' <=> ToCreate(r)
      BY <1>6, <2>2 DEF ToCreate
    <2>4. Scripts'
      BY <1>6, <2>2 DEF StructInv, Scripts
    <2>5. SettingUp'
      BY <1>6, <2>3, SettingUpKept DEF StructInv
    <2>6. Pointers' /\ FreesInOrder' /\ Joined'
      BY <1>6 DEF StructInv, Pointers, FreesInOrder, Joined, At
    <2>7. Ownership'
      <3>1. (Tidy' <=> Tidy) /\ (Stopping' <=> Stopping)
        BY <1>6 DEF Tidy, Stopping, StartedTwice
      <3>2. Held \subseteq Resources /\ "streamCallbacks" \in Resources /\ "callbacks" \in Resources
        BY DEF Held, Resources
      <3> QED BY <1>6, <2>3, <3>1, <3>2 DEF StructInv, Ownership, At
    <2> QED BY <2>1, <2>4, <2>5, <2>6, <2>7 DEF StructInv
  <1>7. ASSUME At("main", "frames") \/ At("main", "put")
        PROVE  program \in Samples
    <2>1. todo["main"] # << >> /\ Head(todo["main"]) \in {Put, Frames} /\ Head(todo["main"]) \in Left(todo["main"])
      BY <1>0, <1>7, TailFacts, StepFacts DEF At
    <2> QED BY <2>1 DEF StructInv, Scripts, ProgramTypes, Programs
  <1>8. CASE LoadFrames
    <2>1. same /\ okTypes /\ At("main", "load") /\ (Advance("main") \/ Failed("main"))
      BY <1>0, <1>8 DEF LoadFrames
    <2>2. CASE Advance("main")
      BY <1>3, <2>1, <2>2 DEF At
    <2>3. CASE program \in Checked /\ Abort("main")
      BY <1>4, <2>1, <2>3 DEF Abort, Checked
    <2> QED BY <2>1, <2>2, <2>3 DEF Failed
  <1>9. CASE StartSession
    <2>1. /\ UNCHANGED <<program, ptr, alive, session, mQueue, handled>>
          /\ expired' \in BOOLEAN /\ gIsFirstVideoFramePut' \in BOOLEAN
      BY <1>0, <1>9 DEF StartSession
    <2> QED BY <1>9, <2>1, StartKeeps DEF ProgramTypes
  <1>10. CASE JoinThread
    <2>1. /\ same /\ okTypes /\ At("main", "join") /\ Advance("main")
          /\ todo[Head(todo["main"]).what] = << >>
      BY <1>0, <1>10 DEF JoinThread
    <2> QED BY <1>3, <2>1
  <1>11. CASE StopStream
    <2>1. same /\ okTypes /\ At("main", "stop") /\ (Advance("main") \/ Failed("main"))
      BY <1>0, <1>11 DEF StopStream
    <2>2. CASE Advance("main")
      BY <1>3, <2>1, <2>2 DEF At
    <2>3. CASE program \in Checked /\ Abort("main")
      BY <1>4, <2>1, <2>3 DEF Abort, Checked
    <2> QED BY <2>1, <2>2, <2>3 DEF Failed
  <1>12. CASE FreeObject
    <2>1. UNCHANGED <<program, session, mQueue, handled, expired, gIsFirstVideoFramePut>>
      BY <1>12 DEF FreeObject
    <2> QED BY <1>12, <2>1, FreeKeeps DEF ProgramTypes
  <1>13. CASE methodThread
    <2>1. UNCHANGED <<program, ptr, alive, session, expired, gIsFirstVideoFramePut>>
      BY <1>13 DEF methodThread
    <2> QED BY <1>13, <2>1, MethodKeeps DEF ProgramTypes
  <1>14. ASSUME NEW a \in {"main", "video"}, VideoFrames(a)
         PROVE  ProgramTypes' /\ StructInv'
    <2>1. /\ same /\ okTypes /\ At(a, "frames")
          /\ \/ Advance(a)
             \/ todo' = [todo EXCEPT ![a] = <<Put>> \o todo[a]]
             \/ a = "main" /\ Abort(a)
      BY <1>0, <1>14 DEF VideoFrames
    <2>2. todo[a] # << >> /\ Head(todo[a]) = Frames /\ Head(todo[a]).do = "frames"
      BY <1>0, <1>1, <2>1, StepFacts DEF At
    <2>3. CASE a = "main"
      <3>1. CASE Advance(a)
        BY <1>3, <2>1, <2>2, <2>3, <3>1 DEF At
      <3>2. CASE todo' = [todo EXCEPT ![a] = <<Put>> \o todo[a]]
        <4>1. StructInv'
          BY <2>1, <2>2, <2>3, <3>2, MainKeeps
        <4> QED BY <1>0, <1>1, <1>2, <2>1, <2>2, <2>3, <3>2, <4>1
      <3>3. CASE Abort(a)
        BY <1>4, <1>7, <2>1, <2>3, <3>3 DEF Abort
      <3> QED BY <2>1, <3>1, <3>2, <3>3
    <2>4. CASE a = "video"
      <3>1. CASE Advance(a)
        BY <1>5, <2>1, <2>2, <2>4, <3>1 DEF Advance
      <3>2. CASE todo' = [todo EXCEPT ![a] = <<Put>> \o todo[a]]
        BY <1>5, <2>1, <2>2, <2>4, <3>2
      <3> QED BY <2>1, <2>4, <3>1, <3>2
    <2> QED BY <2>3, <2>4
  <1>15. ASSUME NEW a \in {"main", "video"}, PutVideo(a)
         PROVE  ProgramTypes' /\ StructInv'
    <2>1. PICK result \in PutResults :
            todo' = [todo EXCEPT ![a] = IF a = "main" /\ result = "failed"
                                          THEN CleanUp ELSE NextAfterPut(a, result)]
      BY <1>15 DEF PutVideo
    <2>2. same /\ okTypes /\ At(a, "put")
      BY <1>0, <1>15 DEF PutVideo, FlagAfterPut
    <2>3. todo[a] # << >> /\ Head(todo[a]).do = "put"
      BY <2>2 DEF At
    <2>4. CASE a = "main"
      <3>1. CASE result = "failed"
        BY <1>4, <1>7, <2>1, <2>2, <2>4, <3>1
      <3>2. CASE result # "failed"
        <4>1. Advance("main")
          BY <2>1, <2>4, <3>2 DEF NextAfterPut, Advance
        <4> QED BY <1>3, <2>2, <2>3, <2>4, <4>1 DEF At
      <3> QED BY <3>1, <3>2
    <2>5. CASE a = "video"
      <3>1. todo' = [todo EXCEPT !["video"] = NextAfterPut(a, result)]
        BY <2>1, <2>5
      <3>2. \/ NextAfterPut(a, result) = Tail(todo["video"])
            \/ NextAfterPut(a, result) = <<Mark>> \o Tail(todo["video"]) /\ program # "MediaProvider"
        BY <2>5 DEF NextAfterPut
      <3> QED BY <1>5, <2>2, <2>3, <2>5, <3>1, <3>2
    <2> QED BY <2>4, <2>5
  <1>16. CASE MarkFirstVideoFrame
    <2>1. same /\ okTypes /\ At("video", "mark") /\ Advance("video")
      BY <1>0, <1>16 DEF MarkFirstVideoFrame
    <2> QED BY <1>5, <2>1 DEF At, Advance
  <1>17. CASE AudioFrames
    <2>1. /\ same /\ okTypes /\ At("audio", "frames")
          /\ todo' = [todo EXCEPT !["audio"] = IF expired THEN Tail(todo["audio"]) ELSE <<Put>> \o todo["audio"]]
      BY <1>0, <1>17 DEF AudioFrames
    <2>2. todo["audio"] # << >> /\ Head(todo["audio"]) = Frames /\ Head(todo["audio"]).do # "create"
      BY <1>0, <1>1, <2>1, StepFacts DEF At
    <2> QED BY <1>5, <2>1, <2>2
  <1>18. CASE PutAudio
    <2>1. same /\ okTypes /\ At("audio", "put") /\ Advance("audio")
      BY <1>0, <1>18 DEF PutAudio
    <2> QED BY <1>5, <2>1 DEF At, Advance
  <1>19. CASE CreateObject
    BY <1>19, CreateObjectKeeps
  <1>20. CASE Expire
    BY <1>0, <1>6, <1>20 DEF Expire
  <1>21. CASE on_bus_acquired \/ on_bus_acquiredJames
    BY <1>0, <1>6, <1>21 DEF on_bus_acquired, on_bus_acquiredJames, RegisterObject
  <1>22. ASSUME NEW p, NEW methods \in SUBSET {"cmd1", "cmd2"}, MethodCall(p, methods)
         PROVE  ProgramTypes' /\ StructInv'
    <2>1. UNCHANGED todo /\ same /\ UNCHANGED <<expired, gIsFirstVideoFramePut>>
      BY <1>22 DEF MethodCall
    <2>2. PICK method \in methods : mQueue' = Append(mQueue, method)
      BY <1>22 DEF MethodCall, Enqueue
    <2>3. mQueue' \in Seq({"cmd1", "cmd2"})
      BY <1>0, <2>2
    <2> QED BY <1>0, <1>6, <2>1, <2>3
  <1>23. CASE handle_method_call
    BY <1>22, <1>23 DEF handle_method_call
  <1>24. CASE handle_method_callJames
    <2> DEFINE ms == {"cmd2"} \cup (IF \E i \in 1..Len(accepted) : accepted[i] = "cmd1"
                                      THEN {} ELSE {"cmd1"})
    <2>1. ms \in SUBSET {"cmd1", "cmd2"} /\ MethodCall("MediaProvider", ms)
      BY <1>24 DEF handle_method_callJames
    <2> HIDE DEF ms
    <2> QED BY <1>22, <2>1
  <1>25. CASE UNCHANGED vars
    BY <1>0, <1>6, <1>25 DEF vars
  <1> QED BY <1>8, <1>9, <1>10, <1>11, <1>12, <1>13, <1>14, <1>15, <1>16, <1>17, <1>18, <1>19,
             <1>20, <1>21, <1>23, <1>24, <1>25 DEF Next, MainStep, VideoStep, AudioStep

-----------------------------------------------------------------------------
(* Frames and the flag.  The head of a thread's script after a step.       *)
LEMMA NextHead ==
  ASSUME ProgramTypes, Scripts
  PROVE  /\ todo["video"] # << >> /\ Tail(todo["video"]) # << >> => Head(Tail(todo["video"])).do # "mark"
         /\ todo["audio"] # << >> /\ Tail(todo["audio"]) # << >> => Head(Tail(todo["audio"])).do # "put"
  <1>1. ASSUME NEW t \in {"video", "audio"}, todo[t] # << >>, Tail(todo[t]) # << >>
        PROVE  /\ 2 \in DOMAIN todo[t] /\ Head(Tail(todo[t])) = todo[t][2]
               /\ Head(Tail(todo[t])) \in AllSteps
    <2> DEFINE q == todo[t]
    <2>0. q \in Seq(AllSteps)
      BY DEF ProgramTypes, Actors
    <2>1. /\ Tail(q) \in Seq(AllSteps) /\ DOMAIN q = 1..Len(q) /\ Len(q) \in Nat
          /\ DOMAIN Tail(q) = 1..(Len(q) - 1)
          /\ \A i \in DOMAIN Tail(q) : i \in Nat /\ i + 1 \in DOMAIN q /\ Tail(q)[i] = q[i + 1]
      BY <1>1, <2>0, TailFacts
    <2>2. 1 \in DOMAIN Tail(q) /\ Head(Tail(q)) = Tail(q)[1] /\ Head(Tail(q)) \in AllSteps
      BY <1>1, <2>1, TailFacts
    <2>3. 1 + 1 \in DOMAIN q /\ Tail(q)[1] = q[1 + 1]
      BY <2>1, <2>2
    <2> QED BY <2>2, <2>3
  <1>2. ASSUME todo["video"] # << >>, Tail(todo["video"]) # << >>
        PROVE  Head(Tail(todo["video"])).do # "mark"
    <2>1. todo["video"][2] # Mark
      BY <1>1, <1>2 DEF Scripts
    <2> QED BY <1>1, <1>2, <2>1, StepFacts
  <1>3. ASSUME todo["audio"] # << >>, Tail(todo["audio"]) # << >>
        PROVE  Head(Tail(todo["audio"])).do # "put"
    <2>1. todo["audio"][2] # Put
      BY <1>1, <1>3 DEF Scripts
    <2> QED BY <1>1, <1>3, <2>1, StepFacts
  <1> QED BY <1>2, <1>3

(* The flag and the audio thread come after a video frame.                 *)
LEMMA NextKeepsFlag ==
  ASSUME ProgramTypes, StructInv, FlagInv, [Next]_vars
  PROVE  FlagInv'
  <1> USE DEF StructInv
  <1>0. /\ \A a \in Actors : todo[a] \in Seq(AllSteps) /\ todo \in [Actors -> Seq(AllSteps)]
        /\ "main" \in Actors /\ "video" \in Actors /\ "audio" \in Actors
    BY DEF ProgramTypes, Actors
  <1>1. ASSUME UNCHANGED <<program, videoPut>>, gIsFirstVideoFramePut' => gIsFirstVideoFramePut,
               At("video", "mark")' => At("video", "mark"), At("audio", "put")' => At("audio", "put")
        PROVE  FlagInv'
    BY <1>1 DEF FlagInv, VideoSeen
  <1>2. ASSUME NEW a \in Actors, NEW q, todo' = [todo EXCEPT ![a] = q], todo[a] # << >>, q = Tail(todo[a])
        PROVE  /\ At("video", "mark")' => At("video", "mark")
               /\ At("audio", "put")' => At("audio", "put")
    <2>1. ASSUME At("video", "mark")'
          PROVE  At("video", "mark")
      <3>1. a # "video"
        BY <1>0, <1>2, <2>1, NextHead DEF At
      <3> QED BY <1>0, <1>2, <2>1, <3>1 DEF At
    <2>2. ASSUME At("audio", "put")'
          PROVE  At("audio", "put")
      <3>1. a # "audio"
        BY <1>0, <1>2, <2>2, NextHead DEF At
      <3> QED BY <1>0, <1>2, <2>2, <3>1 DEF At
    <2> QED BY <2>1, <2>2
  <1>3. ASSUME NEW q, todo' = [todo EXCEPT !["main"] = q]
        PROVE  /\ At("video", "mark")' => At("video", "mark")
               /\ At("audio", "put")' => At("audio", "put")
    BY <1>0, <1>3 DEF At
  <1>4. CASE LoadFrames \/ JoinThread \/ StopStream \/ FreeObject \/ methodThread
    <2>1. /\ UNCHANGED <<program, videoPut, gIsFirstVideoFramePut>>
          /\ \E q : todo' = [todo EXCEPT !["main"] = q]
      BY <1>4 DEF LoadFrames, JoinThread, StopStream, FreeObject, methodThread, Advance, Failed, Abort
    <2> QED BY <1>1, <1>3, <2>1
  <1>5. CASE StartSession
    <2>1. \A t \in {"video", "audio"} : todo'[t] = << >> \/ todo'[t] = ThreadScript(t)
      BY <1>5 DEF StartSession, Actors
    <2>2. \A t \in {"video", "audio"} : ThreadScript(t) \in Seq(AllSteps)
            /\ Left(ThreadScript(t)) \subseteq CreateSteps \cup {Frames}
      BY ScriptsSound, PiecesSound DEF ThreadScript, SoundScript
    <2>3. \A x \in CreateSteps \cup {Frames} : x.do # "mark" /\ x.do # "put"
      BY DEF CreateSteps, Create, Frames, Step
    <2>4. \A t \in {"video", "audio"} : todo'[t] # << >> =>
            Head(todo'[t]).do # "mark" /\ Head(todo'[t]).do # "put"
      BY <2>1, <2>2, <2>3, TailFacts
    <2>5. ~gIsFirstVideoFramePut'
      BY <1>5 DEF StartSession
    <2> QED BY <2>4, <2>5 DEF FlagInv, At
  <1>6. ASSUME NEW a \in {"main", "video"}, VideoFrames(a)
        PROVE  FlagInv'
    <2>1. /\ UNCHANGED <<program, videoPut, gIsFirstVideoFramePut>> /\ At(a, "frames")
          /\ \/ Advance(a)
             \/ todo' = [todo EXCEPT ![a] = <<Put>> \o todo[a]]
             \/ a = "main" /\ Abort(a)
      BY <1>6 DEF VideoFrames
    <2>2. CASE a = "main"
      BY <1>1, <1>3, <2>1, <2>2 DEF Advance, Abort
    <2>3. CASE a = "video"
      <3>1. CASE Advance(a)
        BY <1>0, <1>1, <1>2, <2>1, <2>3, <3>1 DEF Advance, At
      <3>2. CASE todo' = [todo EXCEPT ![a] = <<Put>> \o todo[a]]
        <4>1. Head(<<Put>> \o todo["video"]) = Put /\ Put.do # "mark"
          BY <1>0, PushFacts, RankFacts
        <4>2. ~At("video", "mark")' /\ (At("audio", "put")' => At("audio", "put"))
          BY <1>0, <2>3, <3>2, <4>1 DEF At
        <4> QED BY <1>1, <2>1, <4>2
      <3> QED BY <2>1, <2>3, <3>1, <3>2
    <2> QED BY <2>2, <2>3
  <1>7. ASSUME NEW a \in {"main", "video"}, PutVideo(a)
        PROVE  FlagInv'
    <2>1. PICK result \in PutResults :
            /\ videoPut' = videoPut \cup {result}
            /\ todo' = [todo EXCEPT ![a] = IF a = "main" /\ result = "failed"
                                             THEN CleanUp ELSE NextAfterPut(a, result)]
      BY <1>7 DEF PutVideo
    <2>2. /\ program' = program /\ At(a, "put") /\ (gIsFirstVideoFramePut' => gIsFirstVideoFramePut)
      BY <1>7 DEF PutVideo, FlagAfterPut
    <2>3. VideoSeen => VideoSeen'
      BY <2>1, <2>2 DEF VideoSeen
    <2>4. At("audio", "put")' => At("audio", "put")
      BY <1>0, <2>1 DEF At
    <2>5. ASSUME At("video", "mark")'
          PROVE  VideoSeen'
      <3>1. CASE a = "main"
        BY <1>0, <2>1, <2>3, <2>5, <3>1 DEF At, FlagInv
      <3>2. CASE a = "video" /\ NextAfterPut(a, result) = Tail(todo[a])
        <4>1. todo' = [todo EXCEPT ![a] = Tail(todo[a])] /\ todo[a] # << >>
          BY <2>1, <2>2, <3>2 DEF At
        <4>2. At("video", "mark")
          BY <1>0, <1>2, <2>5, <4>1
        <4> QED BY <2>3, <4>2 DEF FlagInv
      <3>3. CASE a = "video" /\ NextAfterPut(a, result) # Tail(todo[a])
        <4>1. MarksAfter(result)
          BY <3>3 DEF NextAfterPut
        <4> QED BY <2>1, <2>2, <4>1 DEF VideoSeen, MarksAfter
      <3> QED BY <3>1, <3>2, <3>3
    <2> QED BY <2>2, <2>3, <2>4, <2>5 DEF FlagInv
  <1>8. CASE MarkFirstVideoFrame
    <2>1. At("video", "mark") /\ UNCHANGED <<program, videoPut>>
      BY <1>8 DEF MarkFirstVideoFrame
    <2>2. VideoSeen
      BY <2>1 DEF FlagInv
    <2> QED BY <2>1, <2>2 DEF FlagInv, VideoSeen
  <1>9. CASE AudioFrames
    <2>1. /\ UNCHANGED <<program, videoPut, gIsFirstVideoFramePut>> /\ At("audio", "frames")
          /\ expired \/ AudioMayPut
          /\ todo' = [todo EXCEPT !["audio"] = IF expired THEN Tail(todo["audio"])
                                                         ELSE <<Put>> \o todo["audio"]]
      BY <1>9 DEF AudioFrames
    <2>2. CASE expired
      <3>1. todo' = [todo EXCEPT !["audio"] = Tail(todo["audio"])] /\ todo["audio"] # << >>
        BY <2>1, <2>2 DEF At
      <3>2. (At("video", "mark")' => At("video", "mark")) /\ (At("audio", "put")' => At("audio", "put"))
        BY <1>0, <1>2, <3>1
      <3> QED BY <1>1, <2>1, <3>2
    <2>3. CASE ~expired
      <3>1. program = "AudioOnly" \/ VideoSeen
        BY <2>1, <2>3 DEF AudioMayPut, FlagInv
      <3>2. At("video", "mark")' => At("video", "mark")
        BY <1>0, <2>1 DEF At
      <3> QED BY <2>1, <3>1, <3>2 DEF FlagInv, VideoSeen
    <2> QED BY <2>2, <2>3
  <1>10. CASE PutAudio
    <2>1. /\ UNCHANGED <<program, videoPut, gIsFirstVideoFramePut>> /\ todo["audio"] # << >>
          /\ todo' = [todo EXCEPT !["audio"] = Tail(todo["audio"])]
      BY <1>10 DEF PutAudio, At, Advance
    <2> QED BY <1>0, <1>1, <1>2, <2>1
  <1>11. CASE CreateObject
    <2>1. PICK a \in Actors :
            /\ At(a, "create") /\ UNCHANGED <<program, videoPut, gIsFirstVideoFramePut>>
            /\ Advance(a) \/ Failed(a)
      BY <1>11 DEF CreateObject, CreateDeviceInfo, CreateStreamInfoProvider, CreateProducer,
                   CreateStreamCallbacks
    <2>2. a = Creator
      BY <2>1, OnlyCreatorCreates
    <2>3. CASE Advance(a)
      BY <1>1, <1>2, <2>1, <2>3 DEF Advance, At
    <2>4. CASE program \in Checked /\ Abort(a)
      <3>1. a = "main"
        BY <2>2, <2>4 DEF Creator, Checked, Samples
      <3> QED BY <1>1, <1>3, <2>1, <2>4, <3>1 DEF Abort
    <2> QED BY <2>1, <2>3, <2>4 DEF Failed
  <1>12. CASE \/ Expire \/ on_bus_acquired \/ on_bus_acquiredJames \/ handle_method_call
              \/ handle_method_callJames \/ UNCHANGED vars
    <2>1. UNCHANGED <<program, videoPut, gIsFirstVideoFramePut, todo>>
      BY <1>12 DEF Expire, on_bus_acquired, on_bus_acquiredJames, RegisterObject, handle_method_call,
                   handle_method_callJames, MethodCall, vars
    <2> QED BY <1>1, <2>1 DEF At
  <1> QED BY <1>4, <1>5, <1>6, <1>7, <1>8, <1>9, <1>10, <1>11, <1>12
          DEF Next, MainStep, VideoStep, AudioStep

(* What the stream info was made from stays known until the stream exists. *)
LEMMA NextKeepsMedia ==
  ASSUME MediaInv, [Next]_vars
  PROVE  MediaInv'
  <1>1. \/ UNCHANGED <<program, media>>
        \/ program' = program /\ media' = NoMedia
        \/ /\ program' = program
           /\ \E storage \in StorageSizes, bitrate \in Bitrates :
                media' = [storage |-> storage, bitrate |-> bitrate, info |-> StreamInfo(storage, bitrate)]
    <2>1. CASE CreateObject
      BY <2>1 DEF CreateObject, CreateDeviceInfo, CreateStreamInfoProvider, CreateProducer,
                  CreateStreamCallbacks
    <2>2. CASE MainStep
      BY <2>2 DEF MainStep, LoadFrames, StartSession, JoinThread, StopStream, FreeObject, methodThread,
                  VideoFrames, PutVideo
    <2>3. CASE VideoStep \/ AudioStep
      BY <2>3 DEF VideoStep, AudioStep, VideoFrames, PutVideo, MarkFirstVideoFrame, AudioFrames, PutAudio
    <2>4. CASE \/ Expire \/ on_bus_acquired \/ on_bus_acquiredJames \/ handle_method_call
               \/ handle_method_callJames \/ UNCHANGED vars
      BY <2>4 DEF Expire, on_bus_acquired, on_bus_acquiredJames, RegisterObject, handle_method_call,
                   handle_method_callJames, MethodCall, vars
    <2> QED BY <2>1, <2>2, <2>3, <2>4 DEF Next
  <1>2. program' = program => \A s, b : StreamInfo(s, b)' = StreamInfo(s, b)
    BY DEF StreamInfo
  <1> QED BY <1>1, <1>2 DEF MediaInv

-----------------------------------------------------------------------------
(* The inductive invariant holds throughout every run of every program.    *)
THEOREM ProgramInvariance == Spec => []ProgramInv
  <1>1. Init => ProgramInv
    BY InitProgram
  <1>2. ProgramInv /\ [Next]_vars => ProgramInv'
    BY NextKeepsStruct, NextKeepsFlag, NextKeepsMedia DEF ProgramInv, StructInv
  <1> QED BY <1>1, <1>2, PTL DEF Spec

(* A stream lives within its client and a client within its callbacks      *)
(* provider, whatever failed on the way, and no frame is put to a freed    *)
(* stream, by main or by a thread that kept the handle.                    *)
THEOREM ObjectsNest == Spec => []LifetimesNest
  <1>1. ASSUME ProgramInv
        PROVE  LifetimesNest
    <2>1. ASSUME NEW s \in 1..session
          PROVE  /\ <<"stream", s>> \in alive => <<"client", s>> \in alive
                 /\ <<"client", s>> \in alive => <<"callbacks", s>> \in alive
      <3>1. /\ s \in Nat /\ "stream" \in Resources /\ "client" \in Resources /\ "callbacks" \in Resources
            /\ <<"stream", "client">> \in MadeFrom /\ <<"client", "callbacks">> \in MadeFrom
        BY <1>1 DEF Resources, MadeFrom, ProgramInv, ProgramTypes
      <3> QED BY <1>1, <3>1 DEF ProgramInv, Pointers
    <2>2. ASSUME NEW a \in Actors, At(a, "put"), Handle # 0
          PROVE  <<"stream", Handle>> \in alive
      <3>0. "stream" \in Held
        BY DEF Held, Resources
      <3>1. Handle = ptr["stream"]
        <4>1. CASE program \in Copying
          <5>1. todo[a] # << >> /\ Head(todo[a]) = Put /\ Put \in Left(todo[a])
            <6>1. todo[a] \in Seq(AllSteps) /\ todo[a] # << >>
              BY <1>1, <2>2 DEF ProgramInv, ProgramTypes, At
            <6>2. Head(todo[a]) \in AllSteps /\ Head(todo[a]) \in Left(todo[a])
              BY <6>1, TailFacts
            <6> QED BY <2>2, <6>1, <6>2, StepFacts DEF At
          <5>2. a # "main"
            BY <1>1, <4>1, <5>1 DEF ProgramInv, Scripts
          <5>3. streamHandle = ptr["stream"]
            BY <1>1, <4>1, <5>1, <5>2 DEF ProgramInv, Joined, Actors
          <5> QED BY <4>1, <5>3 DEF Handle, Copying
        <4>2. CASE program \notin Copying
          BY <4>2 DEF Handle, Copying
        <4> QED BY <4>1, <4>2
      <3> QED BY <1>1, <2>2, <3>0, <3>1 DEF ProgramInv, Pointers
    <2> QED BY <2>1, <2>2 DEF LifetimesNest
  <1> QED BY <1>1, ProgramInvariance, PTL

(* A sample that ends has freed what it created, and a service's command   *)
(* loses nothing unless cmd1 came twice in a row.                          *)
THEOREM ObjectsAreFreed == Spec => []NothingLost
  <1>1. ASSUME ProgramInv
        PROVE  NothingLost
    <2>0. /\ Left(<< >>) = {} /\ "callbacks" \in Held
          /\ \A x \in alive : x[1] \in Resources /\ x[2] \in Nat /\ x[2] > 0 /\ x = <<x[1], x[2]>>
      <3>1. alive \subseteq Resources \X (1..session) /\ session \in Nat
        BY <1>1 DEF ProgramInv, ProgramTypes
      <3> QED BY <3>1, PiecesSound DEF Held, Resources
    <2>1. ASSUME Ended, NEW x \in alive
          PROVE  x[1] = "streamCallbacks" /\ program \notin Checked
      <3>1. \A r \in Held : ptr[r] = 0
        BY <1>1, <2>0, <2>1 DEF Ended, ProgramInv, Ownership, Stopping
      <3>2. x[1] \notin Held
        BY <1>1, <2>0, <2>1, <3>1 DEF Ended, ProgramInv, Ownership, Tidy
      <3>3. x[1] = "streamCallbacks"
        BY <2>0, <3>2 DEF Held
      <3>4. program \in Checked => ptr["callbacks"] = x[2]
        BY <1>1, <2>0, <3>3 DEF ProgramInv, Ownership
      <3> QED BY <2>0, <3>1, <3>3, <3>4
    <2>2. ASSUME program = "KvsService", NEW x \in alive
          PROVE  \/ ptr[x[1]] = x[2]
                 \/ x[1] = "streamCallbacks"
                 \/ \E i \in 1..Len(handled) - 1 : handled[i] = "cmd1" /\ handled[i + 1] = "cmd1"
      BY <1>1, <2>0, <2>2 DEF ProgramInv, Ownership, Tidy, StartedTwice, Held
    <2> QED BY <2>1, <2>2 DEF NothingLost
  <1> QED BY <1>1, ProgramInvariance, PTL

(* No audio frame is put before the session's video thread tried to put    *)
(* one, and in the new sample none before one was taken.                   *)
THEOREM VideoComesFirst == Spec => []AudioAfterVideoTried
  <1>1. ProgramInv => AudioAfterVideoTried
    BY DEF ProgramInv, FlagInv, VideoSeen, AudioAfterVideoTried
  <1> QED BY <1>1, ProgramInvariance, PTL

(* Truncating division.                                                    *)
LEMMA DivBounds ==
  ASSUME NEW a \in Nat, NEW d \in Nat, d > 0
  PROVE  a \div d \in Nat /\ (a \div d) * d <= a /\ a < ((a \div d) + 1) * d
  <1>1. a \div d \in Nat
    OBVIOUS
  <1>2. a = d * (a \div d) + (a % d) /\ a % d \in 0..(d - 1)
    OBVIOUS
  <1>3. (a \div d) * d <= a
    OBVIOUS
  <1> QED OBVIOUS

LEMMA DivAtLeast ==
  ASSUME NEW a \in Nat, NEW d \in Nat, NEW w \in Nat, d > 0, w * d <= a
  PROVE  w <= a \div d
  <1> DEFINE q == a \div d
  <1>1. q \in Nat /\ a < (q + 1) * d
    BY DivBounds
  <1> HIDE DEF q
  <1>2. ASSUME w >= q + 1
        PROVE  FALSE
    <2>1. w * d >= (q + 1) * d
      BY <1>1, <1>2
    <2>2. w * d \in Nat /\ (q + 1) * d \in Nat
      BY <1>1
    <2> QED BY <1>1, <2>1, <2>2
  <1>3. w <= q
    BY <1>1, <1>2
  <1> QED BY <1>3 DEF q

(* A buffer of whole seconds that was sized by the storage fits into it,   *)
(* and the storage sized for that buffer gives it back.                    *)
LEMMA SizedFits ==
  ASSUME NEW storage \in Nat, NEW bitrate \in Nat, NEW info, storage > 0, bitrate > 0,
         info.bufferDuration = WholeSeconds(storage, bitrate, 1) * Second,
         info.replayDuration = info.bufferDuration \div 2,
         info.maxLatency = (info.bufferDuration * 85) \div 100
  PROVE  FitsStorage(storage, bitrate, 1, info)
  <1> DEFINE w == WholeSeconds(storage, bitrate, 1)
             d == bitrate * 5
  <1>1. d \in Nat /\ d > 0 /\ storage * 34 \in Nat
    OBVIOUS
  <1>2. bitrate * 1 * 5 = d
    OBVIOUS
  <1>3. w = (storage * 34) \div d
    BY <1>2 DEF WholeSeconds
  <1>4. w \in Nat /\ w * d <= storage * 34
    BY <1>1, <1>3, DivBounds
  <1>5. info.bufferDuration = w * 20
    BY DEF Second
  <1> HIDE DEF w
  <1>6. info.replayDuration = w * 10 /\ info.maxLatency = w * 17
    <2>1. (w * 20) \div 2 = w * 10 /\ ((w * 20) * 85) \div 100 = w * 17
      BY <1>4
    <2> QED BY <1>5, <2>1
  <1>7. info.bufferDuration * bitrate * 1 <= storage * 8 * Second
    <2>1. (w * 20) * bitrate * 1 = 4 * (w * d)
      BY <1>4
    <2>2. w * d \in Nat
      BY <1>1, <1>4
    <2>3. 4 * (w * d) <= storage * 160
      BY <1>4, <2>2
    <2> QED BY <1>5, <2>1, <2>3 DEF Second
  <1>8. info.replayDuration <= info.maxLatency /\ info.maxLatency <= info.bufferDuration
    BY <1>4, <1>5, <1>6
  <1> DEFINE device == createDefaultDeviceInfo(storage)
             sized  == setDeviceInfoStorageSizeBasedOnBitrateAndBufferDuration(
                         device, bitrate, info.bufferDuration)
             bw     == bitrate * w
  <1>9. device = [storageSize |-> storage, streamCount |-> 100]
    BY DEF createDefaultDeviceInfo, DEFAULT_STREAM_COUNT
  <1>10. EstimatedStorageSize(100, bitrate, w * 20) = 15 * bw
    <2>1. bw \in Nat
      BY <1>4
    <2>2. 100 * bitrate * (w * 20) * 3 = 6000 * bw
      BY <1>4
    <2> HIDE DEF bw
    <2>3. (6000 * bw) \div 400 = 15 * bw
      BY <2>1
    <2> QED BY <2>2, <2>3 DEF EstimatedStorageSize, Second
  <1>11. sized # device => sized.storageSize = 15 * bw /\ sized.streamCount = 100
    <2>1. device.streamCount = 100
      BY <1>9
    <2>2. sized = device \/ sized = setDeviceInfoStorageSize(device, 15 * bw)
      BY <1>5, <1>10, <2>1 DEF setDeviceInfoStorageSizeBasedOnBitrateAndBufferDuration
    <2>3. sized = device \/ sized = [device EXCEPT !.storageSize = 15 * bw]
      BY <2>2 DEF setDeviceInfoStorageSize
    <2>4. [device EXCEPT !.storageSize = 15 * bw] = [storageSize |-> 15 * bw, streamCount |-> 100]
      BY <1>9
    <2> QED BY <2>3, <2>4
  <1>12. WholeSeconds(15 * bw, bitrate, 100) >= w /\ WholeSeconds(15 * bw, bitrate, 100) \in Nat
    <2> DEFINE a == (15 * bw) * 34
               e == bitrate * 100 * 5
    <2>1. a \in Nat /\ e \in Nat /\ e > 0
      BY <1>4
    <2>2. w * e <= a
      <3>1. w * e = 500 * bw /\ a = 510 * bw /\ bw \in Nat
        BY <1>4
      <3> HIDE DEF bw, e, a
      <3> QED BY <3>1
    <2> HIDE DEF a, e
    <2>3. w <= a \div e /\ a \div e \in Nat
      BY <1>4, <2>1, <2>2, DivAtLeast, DivBounds
    <2>4. WholeSeconds(15 * bw, bitrate, 100) = a \div e
      BY DEF WholeSeconds, a, e
    <2> QED BY <1>4, <2>3, <2>4
  <1> HIDE DEF bw
  <1>13. sized # device =>
           WholeSeconds(sized.storageSize, bitrate, sized.streamCount) * Second >= info.bufferDuration
    <2> SUFFICES ASSUME sized # device
                 PROVE  WholeSeconds(sized.storageSize, bitrate, sized.streamCount) * Second
                          >= info.bufferDuration
      OBVIOUS
    <2> DEFINE k == WholeSeconds(15 * bw, bitrate, 100)
    <2>1. WholeSeconds(sized.storageSize, bitrate, sized.streamCount) = k
      BY <1>11
    <2>2. k >= w /\ k \in Nat
      BY <1>12
    <2> HIDE DEF k, sized, device
    <2>3. k * 20 >= w * 20
      BY <1>4, <2>2
    <2> QED BY <1>5, <2>1, <2>3 DEF Second
  <1> QED BY <1>7, <1>8, <1>13 DEF FitsStorage

(* The three durations that a stream info is given.                        *)
InfoRecords ==
  [tracks : Int, bufferDuration : Int, replayDuration : Int, maxLatency : Int]

LEMMA DurationsSet ==
  \A i \in InfoRecords, x \in Int :
    /\ Durations(i, x) \in InfoRecords /\ Durations(i, x).bufferDuration = x
    /\ Durations(i, x).replayDuration = x \div 2
    /\ Durations(i, x).maxLatency = (x * 85) \div 100
  <1> TAKE i \in InfoRecords, x \in Int
  <1>1. x \div 2 \in Int /\ (x * 85) \div 100 \in Int
    OBVIOUS
  <1> QED BY <1>1 DEF Durations, InfoRecords

(* Whatever the stream info was, once it is sized by the storage it fits.  *)
LEMMA SizedInfoFits ==
  ASSUME NEW i \in InfoRecords, NEW storage \in Nat, NEW bitrate \in Nat,
         storage > 0, bitrate > 0
  PROVE  FitsStorage(storage, bitrate, 1, setStreamInfoBasedOnStorageSize(storage, bitrate, 1, i))
  <1> DEFINE b    == WholeSeconds(storage, bitrate, 1) * Second
             info == Durations(i, b)
  <1>1. b \in Int
    <2>1. storage * 34 \in Nat /\ bitrate * 1 * 5 \in Nat /\ bitrate * 1 * 5 > 0
      OBVIOUS
    <2> QED BY <2>1, DivBounds DEF WholeSeconds, Second
  <1>2. setStreamInfoBasedOnStorageSize(storage, bitrate, 1, i) = info
    BY DEF setStreamInfoBasedOnStorageSize
  <1>3. /\ info.bufferDuration = b
        /\ info.replayDuration = b \div 2
        /\ info.maxLatency = (b * 85) \div 100
    <2> HIDE DEF b
    <2>1. b \div 2 \in Int /\ (b * 85) \div 100 \in Int
      BY <1>1
    <2> QED BY <1>1, <2>1 DEF Durations, InfoRecords
  <1> HIDE DEF info
  <1>4. FitsStorage(storage, bitrate, 1, info)
    BY <1>3, SizedFits
  <1> QED BY <1>2, <1>4

(* The buffer of a stream that is about to be created fits the storage it  *)
(* was sized by, for every storage size and bit rate.                      *)
THEOREM SizingIsSound == Spec => []SizedBufferFits
  <1>1. ASSUME ProgramInv
        PROVE  SizedBufferFits
    <2> SUFFICES ASSUME media # NoMedia, program \in SizedByStorage
                 PROVE  FitsStorage(media.storage, media.bitrate, 1, media.info)
      BY DEF SizedBufferFits
    <2>1. PICK storage \in StorageSizes, bitrate \in Bitrates :
            media = [storage |-> storage, bitrate |-> bitrate, info |-> StreamInfo(storage, bitrate)]
      BY <1>1 DEF ProgramInv, MediaInv
    <2>2. storage \in Nat /\ storage > 0 /\ bitrate \in Nat /\ bitrate > 0
      BY ProgramsAssumption
    <2> DEFINE type == IF program = "VideoRealtime" THEN "realtime" ELSE "offline"
               base == createVideoStreamInfo(type, 1, 120 * Second)
               info == StreamInfo(storage, bitrate)
    <2>3. base \in InfoRecords
      <3>1. ValidStreamInfo(type, 1, 120 * Second) /\ 120 * Second \in Int
        BY DEF ValidStreamInfo, Second
      <3> HIDE DEF type
      <3>2. base = setStreamInfoDefaults(120 * Second, 1)
        BY <3>1 DEF createVideoStreamInfo, CreateStreamInfo
      <3>3. NoInfo \in InfoRecords
        BY DEF NoInfo, InfoRecords
      <3>4. Durations(NoInfo, 120 * Second) \in InfoRecords
        BY <3>1, <3>3, DurationsSet
      <3> HIDE DEF base
      <3> QED BY <3>2, <3>4 DEF setStreamInfoDefaults, InfoRecords
    <2>4. info = setStreamInfoBasedOnStorageSize(storage, bitrate, 1, base)
      BY DEF StreamInfo
    <2>5. FitsStorage(storage, bitrate, 1, info)
      <3> HIDE DEF base, info
      <3> QED BY <2>2, <2>3, <2>4, SizedInfoFits
    <2> HIDE DEF info
    <2>6. media.storage = storage /\ media.bitrate = bitrate /\ media.info = info
      BY <2>1 DEF info
    <2> QED BY <2>5, <2>6
  <1> QED BY <1>1, ProgramInvariance, PTL

=============================================================================
