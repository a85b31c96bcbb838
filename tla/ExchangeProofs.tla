--------------------------- MODULE ExchangeProofs ---------------------------
(***************************************************************************)
(* Exactly once, in the face of retries, crashes and power losses: for any *)
(* connections, scripts and number of crashes, the journal holds an        *)
(* order_id at most once, what was confirmed survives, the taken ids are   *)
(* those of the orders that hold them, and acks come in order.             *)
(***************************************************************************)
EXTENDS Exchange, FiniteSetTheorems, SequenceTheorems, TLAPS

\* The order is in the file since before the last boot.
InPast(o) == \E i \in DOMAIN past : past[i] = o

\* The order holds its id: it is in the file, or may still get there.
Holds(o) ==
  \/ InPast(o) \/ InJournal(o)
  \/ stage[o] \in {"publish", "forget"}
  \/ status[o] \in {"published", "unconfirmed"}

\* What the ring knows of an order fits where its handling stands; only a confirmed
\* one goes to the archive.
StageInv ==
  \A o \in Orders :
    /\ stage[o] \in {"idle", "register", "invalid", "duplicate", "lost"} => status[o] = "new"
    /\ stage[o] = "publish"     => status[o] = "open"
    /\ stage[o] = "forget"      => status[o] = "refused"
    /\ stage[o] = "admitted"    => status[o] = "published"
    /\ stage[o] = "archive"     => status[o] = "acked"
    /\ stage[o] = "ok"          => status[o] \in {"acked", "new"}
    /\ stage[o] = "unavailable" => status[o] \in {"refused", "unconfirmed", "new"}
    /\ o \in archived => stage[o] = "ok"

\* The file holds an order once: in the past, of which this life knows nothing, or
\* among the orders it has accepted.
FileInv ==
  /\ \A i, j \in DOMAIN past : past[i] = past[j] => i = j
  /\ \A i, j \in DOMAIN written : written[i] = written[j] => i = j
  /\ \A o \in Orders :
       /\ InPast(o) => stage[o] \in {"lost", "ok", "unavailable"} /\ status[o] = "new"
       /\ InJournal(o) => status[o] \in {"published", "acked", "unconfirmed"}
       /\ status[o] = "acked" => Released(o)
  /\ ~up => /\ written = <<>> /\ committed = 0 /\ executed = 0
            /\ \A o \in Orders : status[o] = "new" /\ stage[o] \notin InAdmit \cup InConfirm

\* An id has one holder, and the taken ids are those of the holders.
IdInv ==
  /\ \A o, p \in Orders : Holds(o) /\ Holds(p) /\ IdOf[o] = IdOf[p] => o = p
  /\ up => ids = {IdOf[o] : o \in {p \in Orders : Holds(p)}}

\* The order is in the fsynced part of the file.
OnDisk(o) == \E i \in 1..stable : Journal[i] = o

\* What a release has fsynced, a confirmed order is part of.
DiskInv ==
  /\ stable <= Len(past) + committed
  /\ committed = 0 \/ stable = Len(past) + committed
  /\ \A o \in Orders : stage[o] \in {"archive", "ok"} => OnDisk(o)

\* A connection has touched no frame that it has not read, and has answered exactly the
\* frames that it has dealt with, the last of which may have ended it.
AckInv ==
  /\ \A o \in Orders : answer[o] = "ok" => stage[o] = "ok"
  /\ \A c \in Conns : \A i \in DOMAIN Script[c] :
       /\ i > conn[c].read => stage[Frame(c, i)] = "idle"
       /\ i > conn[c].done => answer[Frame(c, i)] = "none"
       /\ i <= conn[c].done => answer[Frame(c, i)] # "none"
       /\ i < conn[c].done \/ (i = conn[c].done /\ conn[c].open) =>
            answer[Frame(c, i)] # "unavailable"

\* The inductive invariant.
ExchangeInv ==
  TypeOK /\ StageInv /\ FileInv /\ IdInv /\ DiskInv /\ AckInv

-----------------------------------------------------------------------------
(* The file.                                                                 *)

\* Two sequences one after the other.
LEMMA Joined ==
  ASSUME NEW S, NEW a \in Seq(S), NEW b \in Seq(S)
  PROVE  /\ a \o b \in Seq(S) /\ Len(a \o b) = Len(a) + Len(b)
         /\ Len(a) \in Nat /\ Len(b) \in Nat /\ Len(a \o b) \in Nat
         /\ DOMAIN (a \o b) = 1..Len(a \o b) /\ DOMAIN a = 1..Len(a) /\ DOMAIN b = 1..Len(b)
         /\ \A i \in 1..Len(a) : (a \o b)[i] = a[i]
         /\ \A i \in 1..Len(b) : (a \o b)[Len(a) + i] = b[i]
         /\ \A i \in 1..Len(a \o b) :
              (a \o b)[i] = IF i <= Len(a) THEN a[i] ELSE b[i - Len(a)]
OBVIOUS

\* What is in the file is in its past or was written in this life.
LEMMA FileParts ==
  ASSUME TypeOK, NEW o
  PROVE  (\E i \in DOMAIN Journal : Journal[i] = o) <=> InPast(o) \/ InJournal(o)
<1>1. past \in Seq(Orders) /\ written \in Seq(Orders) BY DEF TypeOK
<1>2. ASSUME NEW i \in DOMAIN past, past[i] = o PROVE \E k \in DOMAIN Journal : Journal[k] = o
  <2>1. i \in DOMAIN Journal /\ Journal[i] = o BY <1>1, <1>2, Joined DEF Journal
  <2> QED BY <2>1
<1>3. ASSUME NEW i \in DOMAIN written, written[i] = o
      PROVE  \E k \in DOMAIN Journal : Journal[k] = o
  <2>1. Len(past) + i \in DOMAIN Journal /\ Journal[Len(past) + i] = o
    BY <1>1, <1>3, Joined DEF Journal
  <2> QED BY <2>1
<1>4. ASSUME NEW k \in DOMAIN Journal, Journal[k] = o
      PROVE  InPast(o) \/ InJournal(o)
  <2>1. k \in 1..(Len(past) + Len(written)) BY <1>1, Joined DEF Journal
  <2>2. CASE k <= Len(past)
    <3>1. k \in DOMAIN past /\ past[k] = o BY <1>1, <1>4, <2>1, <2>2, Joined DEF Journal
    <3> QED BY <3>1 DEF InPast
  <2>3. CASE ~(k <= Len(past))
    <3>1. k - Len(past) \in DOMAIN written /\ written[k - Len(past)] = o
      BY <1>1, <1>4, <2>1, <2>3, Joined DEF Journal
    <3> QED BY <3>1 DEF InJournal
  <2> QED BY <2>2, <2>3
<1> QED BY <1>2, <1>3, <1>4 DEF InPast, InJournal

\* The file holds an order once.
LEMMA FileOnce ==
  ASSUME TypeOK, FileInv, NEW i \in DOMAIN Journal, NEW j \in DOMAIN Journal,
         Journal[i] = Journal[j]
  PROVE  i = j
<1>1. past \in Seq(Orders) /\ written \in Seq(Orders) BY DEF TypeOK
<1> DEFINE m == Len(past)
<1>2. /\ m \in Nat /\ i \in Nat /\ j \in Nat
      /\ i <= m => i \in DOMAIN past /\ past[i] = Journal[i]
      /\ j <= m => j \in DOMAIN past /\ past[j] = Journal[j]
      /\ i > m => i - m \in DOMAIN written /\ written[i - m] = Journal[i]
      /\ j > m => j - m \in DOMAIN written /\ written[j - m] = Journal[j]
  BY <1>1, Joined DEF Journal
<1>3. Journal[i] \in Orders BY <1>1, Joined DEF Journal
<1>4. ~(InPast(Journal[i]) /\ InJournal(Journal[i])) BY <1>3 DEF FileInv
<1>5. i <= m <=> j <= m BY <1>2, <1>4 DEF InPast, InJournal
<1>6. CASE i <= m BY <1>2, <1>5, <1>6 DEF FileInv
<1>7. CASE i > m
  <2>1. i - m = j - m BY <1>2, <1>5, <1>7 DEF FileInv
  <2> QED BY <2>1, <1>2
<1> QED BY <1>2, <1>6, <1>7

\* A released order is on disk: the release has fsynced the whole file.
LEMMA ReleasedOnDisk ==
  ASSUME TypeOK, DiskInv, NEW o \in Orders, Released(o)
  PROVE  OnDisk(o)
<1>1. /\ past \in Seq(Orders) /\ written \in Seq(Orders)
      /\ committed \in Nat /\ committed <= Len(written)
  BY DEF TypeOK
<1>2. PICK i \in 1..committed : written[i] = o BY DEF Released
<1>3. stable = Len(past) + committed BY <1>1, <1>2 DEF DiskInv
<1>4. i \in 1..Len(written) BY <1>1, <1>2
<1>5. Len(past) + i \in 1..stable BY <1>1, <1>2, <1>3
<1>6. Journal[Len(past) + i] = o BY <1>1, <1>2, <1>4, Joined DEF Journal
<1> QED BY <1>5, <1>6 DEF OnDisk

\* An order in the file has been handed to Confirm, or was taken by a crash.
LEMMA FiledStage ==
  ASSUME TypeOK, StageInv, FileInv, NEW o \in Orders, InPast(o) \/ InJournal(o)
  PROVE  stage[o] \in {"admitted", "archive", "ok", "unavailable", "lost"}
<1>1. CASE InPast(o) BY <1>1 DEF FileInv
<1>2. CASE InJournal(o)
  <2>1. status[o] \in {"published", "acked", "unconfirmed"} BY <1>2 DEF FileInv
  <2>2. stage[o] \in Stages BY DEF TypeOK
  <2> QED BY <2>1, <2>2 DEF StageInv, Stages, InAdmit, InConfirm, Results
<1> QED BY <1>1, <1>2

-----------------------------------------------------------------------------
(* Frames.                                                                   *)

\* IdInv lasts when no order gains or loses its id.
LEMMA IdFrame ==
  ASSUME IdInv, UNCHANGED <<ids, up>>, \A p \in Orders : Holds(p)' <=> Holds(p)
  PROVE  IdInv'
BY DEF IdInv

\* DiskInv lasts when the file stands still and no order is confirmed.
LEMMA DiskFrame ==
  ASSUME DiskInv, UNCHANGED <<past, written, committed, stable>>,
         \A p \in Orders : stage'[p] \in {"archive", "ok"} => OnDisk(p)
  PROVE  DiskInv'
BY DEF DiskInv, OnDisk, Journal

\* AckInv lasts when no connection moves, and no order begins or leaves "ok".
LEMMA AckFrame ==
  ASSUME AckInv, TypeOK, UNCHANGED <<conn, answer>>,
         \A p \in Orders : /\ stage[p] = "ok" => stage'[p] = "ok"
                           /\ stage[p] = "idle" => stage'[p] = "idle"
  PROVE  AckInv'
<1>1. \A c \in Conns : \A i \in DOMAIN Script[c] : Frame(c, i) \in Orders
  BY ExchangeAssumption DEF Frame
<1>2. \A c \in Conns : \A i \in DOMAIN Script[c] : Frame(c, i)' = Frame(c, i) BY DEF Frame
<1> QED BY <1>1, <1>2 DEF AckInv

-----------------------------------------------------------------------------
(* Admit and Confirm.                                                        *)

\* One order moves: what every one of their steps has in common.
LEMMA OrderMoves ==
  ASSUME ExchangeInv, up, NEW o \in Orders, NEW s \in Stages, NEW t \in Statuses,
         stage' = [stage EXCEPT ![o] = s], status' = [status EXCEPT ![o] = t],
         stage[o] \in InAdmit \cup InConfirm, s \notin {"idle", "lost"},
         UNCHANGED <<written, committed, executed, closed, failed, worldVars, conn, answer>>,
         archived' = archived \/ (s = "ok" /\ archived' = archived \cup {o}),
         ids' \subseteq ids \cup {IdOf[o]},
         s \in {"register", "invalid", "duplicate"} => t = "new",
         s = "publish" => t = "open",       s = "forget" => t = "refused",
         s = "admitted" => t = "published", s \in {"archive", "ok"} => t = "acked",
         s = "unavailable" => t \in {"refused", "unconfirmed"},
         InJournal(o) => t \in {"published", "acked", "unconfirmed"},
         t = "acked" => Released(o)
  PROVE  TypeOK' /\ StageInv' /\ FileInv' /\ DiskInv' /\ AckInv'
<1> USE DEF ExchangeInv, worldVars
<1>0. /\ stage \in [Orders -> Stages] /\ status \in [Orders -> Statuses] /\ archived \subseteq Orders
      /\ \A p \in Orders : /\ stage'[p] = IF p = o THEN s ELSE stage[p]
                           /\ status'[p] = IF p = o THEN t ELSE status[p]
  BY DEF TypeOK
<1>1. TypeOK'
  <2>1. IdOf[o] \in Range(IdOf) BY IngressAssumption DEF Range
  <2>2. ids' \subseteq Range(IdOf) BY <2>1 DEF TypeOK
  <2>3. stage' \in [Orders -> Stages] /\ status' \in [Orders -> Statuses] /\ archived' \subseteq Orders
    BY <1>0
  <2> QED BY <2>2, <2>3 DEF TypeOK, Journal
<1>2. StageInv'
  <2>1. stage[o] # "ok" BY DEF InAdmit, InConfirm
  <2>2. o \notin archived BY <2>1 DEF StageInv
  <2>3. \A p \in Orders : p # o => (p \in archived' <=> p \in archived) BY <1>0
  <2>4. o \in archived' => s = "ok" BY <2>2
  <2> QED BY <1>0, <2>3, <2>4 DEF StageInv
<1>3. FileInv'
  <2>1. \A p \in Orders : /\ InPast(p)' <=> InPast(p)
                          /\ InJournal(p)' <=> InJournal(p)
                          /\ Released(p)' <=> Released(p)
    <3>1. past' = past /\ written' = written /\ committed' = committed OBVIOUS
    <3> QED BY ONLY <3>1 DEF InPast, InJournal, Released
  <2>2. ~InPast(o) BY DEF FileInv, InAdmit, InConfirm
  <2>3. ASSUME NEW p \in Orders
        PROVE  /\ InPast(p)' => stage'[p] \in {"lost", "ok", "unavailable"} /\ status'[p] = "new"
               /\ InJournal(p)' => status'[p] \in {"published", "acked", "unconfirmed"}
               /\ status'[p] = "acked" => Released(p)'
    <3>1. CASE p = o
      <4>1. stage'[o] = s /\ status'[o] = t BY <1>0
      <4> QED BY <2>1, <2>2, <3>1, <4>1
    <3>2. CASE p # o
      <4>1. stage'[p] = stage[p] /\ status'[p] = status[p] BY <1>0, <3>2
      <4>2. /\ InPast(p) => stage[p] \in {"lost", "ok", "unavailable"} /\ status[p] = "new"
            /\ InJournal(p) => status[p] \in {"published", "acked", "unconfirmed"}
            /\ status[p] = "acked" => Released(p)
        BY DEF FileInv
      <4> QED BY <2>1, <4>1, <4>2
    <3> QED BY <3>1, <3>2
  <2> QED BY <2>3 DEF FileInv
<1>4. DiskInv'
  <2>1. s \in {"archive", "ok"} => OnDisk(o) BY ReleasedOnDisk
  <2>2. \A p \in Orders : stage'[p] \in {"archive", "ok"} => OnDisk(p)
    BY <1>0, <2>1 DEF DiskInv
  <2> QED BY <2>2, DiskFrame
<1>5. AckInv'
  <2>1. stage[o] \notin {"ok", "idle"} BY DEF InAdmit, InConfirm
  <2> QED BY <1>0, <2>1, AckFrame
<1> QED BY <1>1, <1>2, <1>3, <1>4, <1>5

\* The places where an order has no id and no trace.
LEMMA NoTrace ==
  ASSUME ExchangeInv, NEW o \in Orders, stage[o] \in {"register", "forget"}
  PROVE  /\ ~InPast(o) /\ ~InJournal(o) /\ (Holds(o) <=> stage[o] = "forget")
         /\ status[o] = IF stage[o] = "forget" THEN "refused" ELSE "new"
<1>1. status[o] = IF stage[o] = "forget" THEN "refused" ELSE "new"
  BY DEF ExchangeInv, StageInv
<1>2. ~InPast(o) /\ ~InJournal(o) BY <1>1 DEF ExchangeInv, FileInv
<1> QED BY <1>1, <1>2 DEF Holds

\* Validate and Register: an invalid order and a duplicate change nothing; the others
\* take an id that nobody holds.
LEMMA RegisterKeeps ==
  ASSUME ExchangeInv, up, NEW o \in Orders, Register(o), UNCHANGED <<worldVars, conn, answer>>
  PROVE  ExchangeInv'
<1>0. /\ stage[o] = "register" /\ archived' = archived
      /\ stage \in [Orders -> Stages] /\ status \in [Orders -> Statuses]
      /\ ~InPast(o) /\ ~InJournal(o) /\ ~Holds(o) /\ status[o] = "new"
      /\ past' = past /\ up' = up
  BY NoTrace DEF ExchangeInv, TypeOK, Register, worldVars
<1>1. ASSUME NEW s \in {"invalid", "duplicate"}, SetStage(o, s), UNCHANGED <<ids, logVars>>
      PROVE  ExchangeInv'
  <2>1. /\ stage' = [stage EXCEPT ![o] = s] /\ status' = [status EXCEPT ![o] = "new"]
        /\ s \in Stages /\ "new" \in Statuses
    BY <1>0, <1>1 DEF SetStage, logVars, Stages, Results, Statuses
  <2>2. TypeOK' /\ StageInv' /\ FileInv' /\ DiskInv' /\ AckInv'
    BY <1>0, <1>1, <2>1, OrderMoves DEF logVars, InAdmit
  <2>3. ASSUME NEW p \in Orders
        PROVE  Holds(p)' <=> Holds(p)
    <3>1. stage'[p] = IF p = o THEN s ELSE stage[p] BY <1>0, <2>1
    <3>2. status' = status /\ written' = written BY <1>1 DEF logVars
    <3> QED BY <1>0, <3>1, <3>2 DEF Holds, InPast, InJournal
  <2>4. IdInv' BY <1>0, <1>1, <2>3, IdFrame DEF ExchangeInv
  <2> QED BY <2>2, <2>4 DEF ExchangeInv
<1>2. ASSUME IdOf[o] \notin ids, ids' = ids \cup {IdOf[o]}, SetStage(o, "publish"), Submit(o)
      PROVE  ExchangeInv'
  <2>1. /\ stage' = [stage EXCEPT ![o] = "publish"] /\ status' = [status EXCEPT ![o] = "open"]
        /\ UNCHANGED <<written, committed, executed, closed, failed>>
        /\ "publish" \in Stages /\ "open" \in Statuses
    BY <1>2 DEF SetStage, Submit, SetStatus, Stages, InAdmit, Statuses
  <2>2. TypeOK' /\ StageInv' /\ FileInv' /\ DiskInv' /\ AckInv'
    BY <1>0, <1>2, <2>1, OrderMoves DEF InAdmit
  <2>3. ASSUME NEW p \in Orders
        PROVE  Holds(p)' <=> Holds(p) \/ p = o
    <3>1. /\ stage'[p] = IF p = o THEN "publish" ELSE stage[p]
          /\ status'[p] = IF p = o THEN "open" ELSE status[p]
      BY <1>0, <2>1
    <3> QED BY <1>0, <2>1, <3>1 DEF Holds, InPast, InJournal
  <2>4. \A p \in Orders : Holds(p) => IdOf[p] # IdOf[o] BY <1>2 DEF ExchangeInv, IdInv
  <2>5. IdInv'
    <3>1. \A p, q \in Orders : Holds(p)' /\ Holds(q)' /\ IdOf[p] = IdOf[q] => p = q
      BY <2>3, <2>4 DEF ExchangeInv, IdInv
    <3>2. ids = {IdOf[p] : p \in {q \in Orders : Holds(q)}} BY DEF ExchangeInv, IdInv
    <3>3. ids' = {IdOf[p] : p \in {q \in Orders : Holds(q)'}} BY <1>2, <2>3, <3>2
    <3> QED BY <3>1, <3>3 DEF IdInv
  <2> QED BY <2>2, <2>5 DEF ExchangeInv
<1> QED BY <1>1, <1>2 DEF Register

\* The steps between Register and the verdict, except the one that gives the id back.
LEMMA HandleKeeps ==
  ASSUME ExchangeInv, up, NEW o \in Orders, UNCHANGED <<worldVars, conn, answer>>,
         PublishOk(o) \/ PublishFails(o) \/ Confirm(o)
  PROVE  ExchangeInv'
<1>0. /\ stage \in [Orders -> Stages] /\ status \in [Orders -> Statuses]
      /\ past' = past /\ up' = up
  BY DEF ExchangeInv, TypeOK, worldVars
<1>1. ASSUME NEW s \in Stages, NEW t \in Statuses, SetStage(o, s), SetStatus(o, t),
             UNCHANGED <<written, committed, executed, closed, failed, ids>>,
             stage[o] \in InAdmit \cup InConfirm,
             archived' = archived \/ (s = "ok" /\ archived' = archived \cup {o}),
             \/ stage[o] = "publish" /\ s = "admitted" /\ t = "published"
             \/ stage[o] = "publish" /\ s = "forget" /\ t = "refused"
             \/ stage[o] = "admitted" /\ s = "archive" /\ t = "acked" /\ Released(o)
             \/ stage[o] = "admitted" /\ s = "unavailable" /\ t = "unconfirmed"
             \/ stage[o] = "archive" /\ s = "ok" /\ t = "acked"
      PROVE  ExchangeInv'
  <2>1. /\ status[o] = IF stage[o] = "publish" THEN "open"
                       ELSE IF stage[o] = "admitted" THEN "published" ELSE "acked"
        /\ (status[o] = "acked" => Released(o))
        /\ (stage[o] = "publish" => ~InJournal(o))
    BY <1>1 DEF ExchangeInv, StageInv, FileInv
  <2>2. /\ stage' = [stage EXCEPT ![o] = s] /\ status' = [status EXCEPT ![o] = t]
        /\ \A p \in Orders : /\ stage'[p] = IF p = o THEN s ELSE stage[p]
                             /\ status'[p] = IF p = o THEN t ELSE status[p]
    BY <1>0, <1>1 DEF SetStage, SetStatus
  <2>3. TypeOK' /\ StageInv' /\ FileInv' /\ DiskInv' /\ AckInv'
    BY <1>1, <2>1, <2>2, OrderMoves
  <2>4. Released(o) => InJournal(o)
    BY DEF Released, InJournal, ExchangeInv, TypeOK
  <2>5. ASSUME NEW p \in Orders
        PROVE  Holds(p)' <=> Holds(p)
    <3>1. InPast(p)' <=> InPast(p) BY <1>0 DEF InPast
    <3>2. InJournal(p)' <=> InJournal(p) BY <1>1 DEF InJournal
    <3>3. CASE p = o
      <4>1. stage'[o] = s /\ status'[o] = t BY <2>2
      <4> QED BY <1>1, <2>1, <2>4, <3>1, <3>2, <3>3, <4>1 DEF Holds
    <3>4. CASE p # o
      <4>1. stage'[p] = stage[p] /\ status'[p] = status[p] BY <2>2, <3>4
      <4> QED BY <3>1, <3>2, <4>1 DEF Holds
    <3> QED BY <3>3, <3>4
  <2>6. IdInv' BY <1>0, <1>1, <2>5, IdFrame DEF ExchangeInv
  <2> QED BY <2>3, <2>6 DEF ExchangeInv
<1> USE DEF SetStage, SetStatus, Stages, Statuses, InAdmit, InConfirm, Results
<1>2. CASE PublishOk(o) BY <1>1, <1>2 DEF PublishOk, Accept
<1>3. CASE PublishFails(o) BY <1>1, <1>3 DEF PublishFails, Refuse
<1>4. CASE Durable(o) BY <1>1, <1>4 DEF Durable, Acknowledge
<1>5. CASE NotDurable(o) BY <1>1, <1>5 DEF NotDurable, Unconfirm
<1>6. CASE Archive(o)
  <2>1. stage[o] = "archive" /\ SetStage(o, "ok") /\ UNCHANGED <<ids, logVars>>
        /\ (archived' = archived \/ archived' = archived \cup {o})
    BY <1>6 DEF Archive
  <2>2. status[o] = "acked" BY <2>1 DEF ExchangeInv, StageInv
  <2>3. SetStatus(o, "acked") BY <1>0, <2>1, <2>2 DEF logVars
  <2> QED BY <1>1, <2>1, <2>3 DEF logVars
<1> QED BY <1>2, <1>3, <1>4, <1>5, <1>6 DEF Confirm

\* Forget gives the id back: nobody else holds it, and the order has left no trace.
LEMMA ForgetKeeps ==
  ASSUME ExchangeInv, up, NEW o \in Orders, Forget(o), UNCHANGED <<worldVars, conn, answer>>
  PROVE  ExchangeInv'
<1>0. /\ stage[o] = "forget" /\ stage' = [stage EXCEPT ![o] = "unavailable"]
      /\ ids' = ids \ {IdOf[o]} /\ UNCHANGED <<logVars, archived>>
      /\ stage \in [Orders -> Stages] /\ status \in [Orders -> Statuses]
      /\ ~InPast(o) /\ ~InJournal(o) /\ Holds(o) /\ status[o] = "refused"
      /\ past' = past /\ up' = up
  BY NoTrace DEF ExchangeInv, TypeOK, Forget, SetStage, worldVars
<1>1. /\ status' = [status EXCEPT ![o] = "refused"]
      /\ UNCHANGED <<written, committed, executed, closed, failed>>
      /\ "unavailable" \in Stages /\ "refused" \in Statuses
  BY <1>0 DEF logVars, Stages, Results, Statuses
<1>2. TypeOK' /\ StageInv' /\ FileInv' /\ DiskInv' /\ AckInv'
  BY <1>0, <1>1, OrderMoves DEF InAdmit
<1>3. ASSUME NEW p \in Orders
      PROVE  Holds(p)' <=> Holds(p) /\ p # o
  <2>1. stage'[p] = (IF p = o THEN "unavailable" ELSE stage[p]) /\ status' = status
        /\ written' = written
    BY <1>0 DEF logVars
  <2> QED BY <1>0, <2>1 DEF Holds, InPast, InJournal
<1>4. IdInv'
  <2>1. \A p, q \in Orders : Holds(p) /\ Holds(q) /\ IdOf[p] = IdOf[q] => p = q
    BY DEF ExchangeInv, IdInv
  <2>2. ids = {IdOf[p] : p \in {q \in Orders : Holds(q)}} BY DEF ExchangeInv, IdInv
  <2>3. ids' = {IdOf[p] : p \in {q \in Orders : Holds(q)'}} BY <1>0, <1>3, <2>1, <2>2
  <2> QED BY <1>3, <2>1, <2>3 DEF IdInv
<1> QED BY <1>2, <1>4 DEF ExchangeInv

-----------------------------------------------------------------------------
(* Connections.                                                              *)

\* A frame is an order, and no other frame is the same one.
LEMMA FramesApart ==
  ASSUME NEW c \in Conns, NEW i \in DOMAIN Script[c]
  PROVE  /\ Frame(c, i) \in Orders
         /\ \A d \in Conns : \A j \in DOMAIN Script[d] : Frame(d, j) = Frame(c, i) => d = c /\ j = i
BY ExchangeAssumption DEF Frame

\* The frames of a batch are frames of the script.
LEMMA BatchInScript ==
  ASSUME TypeOK, NEW c \in Conns, NEW i \in Batch(c)
  PROVE  i \in DOMAIN Script[c] /\ i \in Nat /\ conn[c].done < i /\ i <= conn[c].read
<1>1. /\ conn[c].done \in Nat /\ conn[c].read \in Nat /\ conn[c].read <= Len(Script[c])
      /\ Script[c] \in Seq(Orders)
  BY ExchangeAssumption DEF TypeOK
<1>2. i \in Nat /\ conn[c].done < i /\ i <= conn[c].read BY <1>1 DEF Batch
<1> QED BY <1>1, <1>2

\* A frame is read: its order begins.
LEMMA ReadKeeps ==
  ASSUME ExchangeInv, up, NEW c \in Conns, ReadFrame(c)
  PROVE  ExchangeInv'
<1> DEFINE k == conn[c].read + 1
           o == Frame(c, k)
<1>0. /\ conn \in [Conns -> [open : BOOLEAN, done : Nat, read : Nat]]
      /\ stage \in [Orders -> Stages] /\ Script[c] \in Seq(Orders)
      /\ conn[c].read \in Nat /\ conn[c].read < Len(Script[c])
      /\ stage' = [stage EXCEPT ![o] = "register"]
      /\ conn' = [conn EXCEPT ![c].read = k]
      /\ UNCHANGED <<logVars, ids, archived, worldVars, answer>>
  BY ExchangeAssumption DEF ExchangeInv, TypeOK, ReadFrame, SetStage
<1>1. k \in DOMAIN Script[c] /\ k \in Nat /\ k > conn[c].read BY <1>0
<1>2. o \in Orders BY <1>1, FramesApart
<1>3. stage[o] = "idle" BY <1>1 DEF ExchangeInv, AckInv
<1>4. \A d \in Conns : \A j \in DOMAIN Script[d] : Frame(d, j) = o => d = c /\ j = k
  BY <1>1, FramesApart
<1>5. \A d \in Conns :
        /\ conn'[d].open = conn[d].open /\ conn'[d].done = conn[d].done
        /\ conn'[d].read = IF d = c THEN k ELSE conn[d].read
  BY <1>0
<1> HIDE DEF o, k
<1>6. \A p \in Orders : stage'[p] = IF p = o THEN "register" ELSE stage[p] BY <1>0
<1>7. status[o] = "new" /\ o \notin archived /\ ~InPast(o)
  BY <1>2, <1>3 DEF ExchangeInv, StageInv, FileInv
<1>8. TypeOK'
  <2>1. stage' \in [Orders -> Stages] BY <1>0 DEF Stages, InAdmit
  <2>2. conn' \in [Conns -> [open : BOOLEAN, done : Nat, read : Nat]] BY <1>0, <1>1
  <2>3. \A d \in Conns : conn'[d].done <= conn'[d].read /\ conn'[d].read <= Len(Script[d])
    <3>1. \A d \in Conns : /\ conn[d].done <= conn[d].read /\ conn[d].read <= Len(Script[d])
                           /\ conn[d].done \in Nat /\ conn[d].read \in Nat
      BY <1>0 DEF ExchangeInv, TypeOK
    <3>2. k = conn[c].read + 1 /\ k <= Len(Script[c]) BY <1>0 DEF k
    <3> QED BY <1>5, <3>1, <3>2
  <2> QED BY <1>0, <2>1, <2>2, <2>3 DEF ExchangeInv, TypeOK, logVars, worldVars, Journal
<1>9. StageInv'
  <2>1. status' = status /\ archived' = archived BY <1>0 DEF logVars
  <2> QED BY <1>6, <1>7, <2>1 DEF ExchangeInv, StageInv
<1>10. ASSUME NEW p \in Orders
       PROVE  /\ InPast(p)' <=> InPast(p)
              /\ InJournal(p)' <=> InJournal(p)
              /\ Released(p)' <=> Released(p)
              /\ Holds(p)' <=> Holds(p)
  <2>1. /\ past' = past /\ written' = written /\ committed' = committed /\ status' = status
    BY <1>0 DEF logVars, worldVars
  <2>2. /\ InPast(p)' <=> InPast(p)
        /\ InJournal(p)' <=> InJournal(p)
        /\ Released(p)' <=> Released(p)
    BY <2>1 DEF InPast, InJournal, Released
  <2> QED BY <1>3, <1>6, <2>1, <2>2 DEF Holds
<1>11. FileInv'
  <2>1. /\ past' = past /\ written' = written /\ committed' = committed /\ executed' = executed
        /\ status' = status /\ up' = up
    BY <1>0 DEF logVars, worldVars
  <2>2. ASSUME NEW p \in Orders
        PROVE  /\ InPast(p)' => stage'[p] \in {"lost", "ok", "unavailable"} /\ status'[p] = "new"
               /\ InJournal(p)' => status'[p] \in {"published", "acked", "unconfirmed"}
               /\ status'[p] = "acked" => Released(p)'
    <3>1. /\ InPast(p) => stage[p] \in {"lost", "ok", "unavailable"} /\ status[p] = "new"
          /\ InJournal(p) => status[p] \in {"published", "acked", "unconfirmed"}
          /\ status[p] = "acked" => Released(p)
      BY DEF ExchangeInv, FileInv
    <3> QED BY <1>6, <1>7, <1>10, <2>1, <3>1
  <2> QED BY <2>1, <2>2 DEF ExchangeInv, FileInv
<1>12. IdInv' BY <1>0, <1>10, IdFrame DEF ExchangeInv, worldVars
<1>13. DiskInv' BY <1>0, <1>6, DiskFrame DEF ExchangeInv, DiskInv, logVars, worldVars
<1>14. AckInv'
  <2>1. answer' = answer BY <1>0
  <2>2. answer[o] # "ok" BY <1>2, <1>3 DEF ExchangeInv, AckInv
  <2>3. \A p \in Orders : answer'[p] = "ok" => stage'[p] = "ok"
    BY <1>6, <2>1, <2>2 DEF ExchangeInv, AckInv
  <2>4. ASSUME NEW d \in Conns, NEW i \in DOMAIN Script[d]
        PROVE  /\ i > conn'[d].read => stage'[Frame(d, i)] = "idle"
               /\ i > conn'[d].done => answer'[Frame(d, i)] = "none"
               /\ i <= conn'[d].done => answer'[Frame(d, i)] # "none"
               /\ i < conn'[d].done \/ (i = conn'[d].done /\ conn'[d].open) =>
                    answer'[Frame(d, i)] # "unavailable"
    <3>1. /\ i > conn[d].read => stage[Frame(d, i)] = "idle"
          /\ i > conn[d].done => answer[Frame(d, i)] = "none"
          /\ i <= conn[d].done => answer[Frame(d, i)] # "none"
          /\ i < conn[d].done \/ (i = conn[d].done /\ conn[d].open) =>
               answer[Frame(d, i)] # "unavailable"
      BY DEF ExchangeInv, AckInv
    <3>2. Frame(d, i) \in Orders /\ (Frame(d, i) = o => d = c /\ i = k) BY <1>4, FramesApart
    <3>3. i \in Nat BY ExchangeAssumption
    <3>4. i > conn'[d].read => i > conn[d].read /\ ~(d = c /\ i = k)
      BY <1>0, <1>1, <1>5, <3>3
    <3>5. i > conn'[d].read => stage'[Frame(d, i)] = "idle" BY <1>6, <3>1, <3>2, <3>4
    <3> QED BY <1>5, <2>1, <3>1, <3>5
  <2>5. \A d \in Conns : \A i \in DOMAIN Script[d] : Frame(d, i)' = Frame(d, i) BY DEF Frame
  <2> QED BY <2>3, <2>4, <2>5 DEF AckInv
<1> QED BY <1>8, <1>9, <1>11, <1>12, <1>13, <1>14 DEF ExchangeInv

\* When only connections and answers move, the rest of the invariant lasts.
LEMMA OnlyConns ==
  ASSUME ExchangeInv, UNCHANGED <<logVars, ingressVars, worldVars>>
  PROVE  StageInv' /\ FileInv' /\ IdInv' /\ DiskInv'
<1> USE DEF ExchangeInv, logVars, ingressVars, worldVars
<1>1. StageInv' BY DEF StageInv
<1>2. ASSUME NEW p \in Orders
      PROVE  /\ InPast(p)' <=> InPast(p)
             /\ InJournal(p)' <=> InJournal(p)
             /\ Released(p)' <=> Released(p)
             /\ Holds(p)' <=> Holds(p)
  BY DEF InPast, InJournal, Released, Holds
<1>3. FileInv' BY <1>2 DEF FileInv
<1>4. IdInv' BY <1>2, IdFrame
<1>5. DiskInv' BY DiskFrame DEF DiskInv
<1> QED BY <1>1, <1>3, <1>4, <1>5

\* The acks up to the first refusal, or of the whole batch, are written.
LEMMA WriteAcksKeeps ==
  ASSUME ExchangeInv, up, NEW c \in Conns, WriteAcks(c)
  PROVE  ExchangeInv'
<1>0. /\ conn \in [Conns -> [open : BOOLEAN, done : Nat, read : Nat]]
      /\ answer \in [Orders -> Results \cup {"none"}] /\ stage \in [Orders -> Stages]
      /\ UNCHANGED <<logVars, ingressVars, worldVars>> /\ stage' = stage
      /\ TypeOK /\ conn[c].open
  BY DEF ExchangeInv, TypeOK, WriteAcks, ingressVars
<1>1. PICK last \in LastAnswered(c) :
        /\ answer' = [o \in Orders |->
             IF \E i \in (conn[c].done + 1)..last : Frame(c, i) = o THEN stage[o] ELSE answer[o]]
        /\ conn' = [conn EXCEPT ![c].done = last,
                                ![c].open = stage[Frame(c, last)] # "unavailable"]
  BY DEF WriteAcks
<1>2. /\ last \in Nat /\ last \in DOMAIN Script[c]
      /\ conn[c].done < last /\ last <= conn[c].read
      /\ conn[c].done \in Nat /\ conn[c].read \in Nat
  BY <1>0, BatchInScript DEF LastAnswered
<1>3. \A j \in (conn[c].done + 1)..(last - 1) : stage[Frame(c, j)] \in Results \ {"unavailable"}
  BY DEF LastAnswered
<1>4. stage[Frame(c, last)] \in Results BY DEF LastAnswered, Results
<1>5. \A j \in (conn[c].done + 1)..last :
        /\ stage[Frame(c, j)] \in Results
        /\ j < last => stage[Frame(c, j)] # "unavailable"
  <2>1. \A j \in (conn[c].done + 1)..last : j = last \/ j \in (conn[c].done + 1)..(last - 1)
    BY <1>2
  <2> QED BY <1>2, <1>3, <1>4, <2>1
<1>6. \A d \in Conns :
        /\ conn'[d].read = conn[d].read
        /\ d # c => conn'[d].open = conn[d].open /\ conn'[d].done = conn[d].done
        /\ d = c => /\ conn'[d].done = last
                    /\ conn'[d].open = (stage[Frame(c, last)] # "unavailable")
  BY <1>0, <1>1
<1>7. TypeOK'
  <2>1. answer' \in [Orders -> Results \cup {"none"}] BY <1>0, <1>1, <1>5
  <2>2. conn' \in [Conns -> [open : BOOLEAN, done : Nat, read : Nat]] BY <1>0, <1>1, <1>2, ZenonT(30)
  <2>3. \A d \in Conns : conn'[d].done <= conn'[d].read /\ conn'[d].read <= Len(Script[d])
    BY <1>0, <1>2, <1>6 DEF TypeOK
  <2> QED BY <1>0, <2>1, <2>2, <2>3 DEF TypeOK, logVars, ingressVars, worldVars, Journal
<1>8. ASSUME NEW d \in Conns, NEW i \in DOMAIN Script[d]
      PROVE  answer'[Frame(d, i)] = IF d = c /\ conn[c].done < i /\ i <= last
                                    THEN stage[Frame(d, i)] ELSE answer[Frame(d, i)]
  <2>1. Frame(d, i) \in Orders /\ i \in Nat BY FramesApart, ExchangeAssumption
  <2>2. ASSUME NEW j \in (conn[c].done + 1)..last, Frame(c, j) = Frame(d, i)
        PROVE  d = c /\ j = i
    <3>1. j \in DOMAIN Script[c] BY <1>2, ExchangeAssumption
    <3> QED BY <2>2, <3>1, FramesApart
  <2>3. (\E j \in (conn[c].done + 1)..last : Frame(c, j) = Frame(d, i))
          <=> d = c /\ conn[c].done < i /\ i <= last
    BY <1>2, <2>1, <2>2
  <2> QED BY <1>1, <2>1, <2>3
<1>9. AckInv'
  <2>1. ASSUME NEW p \in Orders, answer'[p] = "ok" PROVE stage'[p] = "ok"
    BY <1>0, <1>1, <2>1 DEF ExchangeInv, AckInv
  <2>2. ASSUME NEW d \in Conns, NEW i \in DOMAIN Script[d]
        PROVE  /\ i > conn'[d].read => stage'[Frame(d, i)] = "idle"
               /\ i > conn'[d].done => answer'[Frame(d, i)] = "none"
               /\ i <= conn'[d].done => answer'[Frame(d, i)] # "none"
               /\ i < conn'[d].done \/ (i = conn'[d].done /\ conn'[d].open) =>
                    answer'[Frame(d, i)] # "unavailable"
    <3>1. /\ i > conn[d].read => stage[Frame(d, i)] = "idle"
          /\ i > conn[d].done => answer[Frame(d, i)] = "none"
          /\ i <= conn[d].done => answer[Frame(d, i)] # "none"
          /\ i < conn[d].done \/ (i = conn[d].done /\ conn[d].open) =>
               answer[Frame(d, i)] # "unavailable"
      BY DEF ExchangeInv, AckInv
    <3>2. i \in Nat /\ conn[d].done \in Nat BY <1>0, ExchangeAssumption
    <3>3. CASE d # c BY <1>0, <1>6, <1>8, <3>1, <3>3
    <3>4. CASE d = c
      <4>1. CASE i > last BY <1>0, <1>2, <1>6, <1>8, <3>1, <3>2, <3>4, <4>1
      <4>2. CASE conn[c].done < i /\ i <= last
        <5>1. i \in (conn[c].done + 1)..last BY <1>2, <3>2, <4>2
        <5>2. stage[Frame(c, i)] \in Results /\ (i < last => stage[Frame(c, i)] # "unavailable")
          BY <1>5, <5>1
        <5>3. answer'[Frame(d, i)] = stage[Frame(c, i)] BY <1>8, <3>4, <4>2
        <5>4. "none" \notin Results BY DEF Results
        <5>5. conn'[d].done = last /\ conn'[d].read = conn[d].read
              /\ (conn'[d].open => stage[Frame(c, last)] # "unavailable")
          BY <1>6, <3>4
        <5> QED BY <1>2, <3>2, <3>4, <4>2, <5>2, <5>3, <5>4, <5>5
      <4>3. CASE i <= conn[c].done
        <5>1. answer'[Frame(d, i)] = answer[Frame(d, i)] BY <1>2, <1>8, <3>2, <4>3
        <5>2. conn'[d].done = last /\ conn'[d].read = conn[d].read BY <1>6, <3>4
        <5>3. i < last /\ ~(i > conn[d].read) /\ ~(i > last)
          BY <1>2, <3>2, <3>4, <4>3
        <5>4. answer[Frame(d, i)] # "none" /\ answer[Frame(d, i)] # "unavailable"
          BY <1>0, <3>1, <3>2, <3>4, <4>3
        <5> QED BY <5>1, <5>2, <5>3, <5>4
      <4> QED BY <1>2, <3>2, <4>1, <4>2, <4>3
    <3> QED BY <3>3, <3>4
  <2>3. \A d \in Conns : \A i \in DOMAIN Script[d] : Frame(d, i)' = Frame(d, i) BY DEF Frame
  <2> QED BY <2>1, <2>2, <2>3 DEF AckInv
<1> QED BY <1>0, <1>7, <1>9, OnlyConns DEF ExchangeInv

\* A connection that ends answers nothing more.
LEMMA HangUpKeeps ==
  ASSUME ExchangeInv, up, NEW c \in Conns, HangUp(c)
  PROVE  ExchangeInv'
<1>0. /\ conn \in [Conns -> [open : BOOLEAN, done : Nat, read : Nat]]
      /\ conn' = [conn EXCEPT ![c].open = FALSE]
      /\ UNCHANGED <<logVars, ingressVars, worldVars, answer>> /\ stage' = stage
  BY DEF ExchangeInv, TypeOK, HangUp, ingressVars
<1>1. conn' \in [Conns -> [open : BOOLEAN, done : Nat, read : Nat]] BY <1>0
<1>2. \A d \in Conns : /\ conn'[d].done = conn[d].done /\ conn'[d].read = conn[d].read
                       /\ conn'[d].open => conn[d].open
  BY <1>0
<1>3. TypeOK'
  BY <1>0, <1>1, <1>2 DEF ExchangeInv, TypeOK, logVars, ingressVars, worldVars, Journal
<1>4. AckInv'
  <2>1. \A d \in Conns : \A i \in DOMAIN Script[d] : Frame(d, i)' = Frame(d, i) BY DEF Frame
  <2> QED BY <1>0, <1>2, <2>1 DEF ExchangeInv, AckInv
<1> QED BY <1>0, <1>3, <1>4, OnlyConns DEF ExchangeInv

-----------------------------------------------------------------------------
(* The ring.                                                                 *)

\* AckInv lasts when neither orders nor connections move.
LEMMA AckStays ==
  ASSUME ExchangeInv, UNCHANGED <<stage, conn, answer>>
  PROVE  AckInv'
BY AckFrame DEF ExchangeInv

\* What the file holds at a place it holds there when more is written behind it.
LEMMA FileGrows ==
  ASSUME TypeOK, NEW batch \in Seq(Orders), written' = written \o batch, past' = past,
         NEW i \in 1..Len(Journal)
  PROVE  Journal'[i] = Journal[i]
<1>1. /\ past \in Seq(Orders) /\ written \in Seq(Orders) /\ written' \in Seq(Orders)
      /\ Len(written') = Len(written) + Len(batch) /\ Len(batch) \in Nat
      /\ \A k \in 1..Len(written) : written'[k] = written[k]
  BY DEF TypeOK
<1>2. Journal' = past \o written' /\ Journal = past \o written BY DEF Journal
<1>3. i \in 1..(Len(past) + Len(written)) BY <1>1, <1>2
<1>4. CASE i <= Len(past) BY <1>1, <1>2, <1>3, <1>4
<1>5. CASE ~(i <= Len(past))
  <2>1. i - Len(past) \in 1..Len(written) BY <1>1, <1>3, <1>5
  <2>2. Journal[i] = written[i - Len(past)] BY <1>1, <1>2, <1>3, <1>5
  <2>3. Journal'[i] = written'[i - Len(past)] BY <1>1, <1>2, <1>3, <1>5
  <2> QED BY <1>1, <2>1, <2>2, <2>3
<1> QED BY <1>4, <1>5

\* Accepted orders join the file, each once.
LEMMA WriteKeeps ==
  ASSUME ExchangeInv, up, Write, UNCHANGED <<ingressVars, worldVars, conn, answer>>
  PROVE  ExchangeInv'
<1>0. /\ past \in Seq(Orders) /\ written \in Seq(Orders) /\ TypeOK /\ stage' = stage
      /\ UNCHANGED <<past, stable, committed, executed, status, ids, up, stage, archived, conn, answer>>
  BY DEF ExchangeInv, TypeOK, Write, ingressVars, worldVars
<1>a. PICK S \in (SUBSET {o \in Orders : status[o] = "published" /\ ~InJournal(o)}) \ {{}} :
        \E batch \in [1..Cardinality(S) -> S] :
          /\ \A o \in S : \E i \in DOMAIN batch : batch[i] = o
          /\ written' = written \o batch
  BY DEF Write
<1>1. PICK batch \in [1..Cardinality(S) -> S] :
        /\ \A o \in S : \E i \in DOMAIN batch : batch[i] = o
        /\ written' = written \o batch
  BY <1>a
<1> DEFINE n == Cardinality(S)
<1>2. S \subseteq Orders /\ IsFiniteSet(S) /\ n \in Nat
  BY <1>a, ExchangeAssumption, FS_Subset, FS_CardinalityType
<1>3. \A i, j \in 1..n : batch[i] = batch[j] => i = j
  <2>1. batch \in Surjection(1..n, S)
    <3>1. batch \in [1..n -> S] /\ DOMAIN batch = 1..n OBVIOUS
    <3>2. \A o \in S : \E i \in 1..n : batch[i] = o BY <1>1, <3>1
    <3> HIDE DEF n
    <3> QED BY <3>1, <3>2 DEF Surjection
  <2>2. IsFiniteSet(1..n) /\ Cardinality(1..n) = n BY <1>2, FS_Interval
  <2>3. batch \in Injection(1..n, S) BY <1>2, <2>1, <2>2, FS_Surjection
  <2> HIDE DEF n
  <2> QED BY <2>3 DEF Injection, IsInjective
<1>4. batch \in [1..n -> Orders] /\ \A i \in 1..n : batch[i] \in S BY <1>2
<1> HIDE DEF n
<1>5. batch \in Seq(Orders) /\ Len(batch) = n /\ DOMAIN batch = 1..n BY <1>2, <1>4
<1>6. \A o \in S : o \in Orders /\ status[o] = "published" /\ ~InJournal(o) BY <1>a
<1> DEFINE m == Len(written)
<1>7. /\ written' \in Seq(Orders) /\ Len(written') = m + n /\ m \in Nat
      /\ DOMAIN written' = 1..(m + n) /\ DOMAIN written = 1..m
      /\ \A i \in 1..m : written'[i] = written[i]
      /\ \A i \in 1..n : written'[m + i] = batch[i]
      /\ \A i \in 1..(m + n) : written'[i] = IF i <= m THEN written[i] ELSE batch[i - m]
  <2>1. written' = written \o batch BY <1>1
  <2>2. written \in Seq(Orders) /\ batch \in Seq(Orders) /\ Len(batch) = n BY <1>0, <1>5
  <2> DEFINE w == written \o batch
  <2>3. /\ w \in Seq(Orders) /\ Len(w) = m + n /\ m \in Nat
        /\ DOMAIN w = 1..(m + n) /\ DOMAIN written = 1..m
        /\ \A i \in 1..m : w[i] = written[i]
        /\ \A i \in 1..n : w[m + i] = batch[i]
        /\ \A i \in 1..(m + n) : w[i] = IF i <= m THEN written[i] ELSE batch[i - m]
    <3>1. w \in Seq(Orders) /\ Len(w) = m + n /\ m \in Nat BY <2>2
    <3>2. DOMAIN w = 1..(m + n) /\ DOMAIN written = 1..m BY <2>2
    <3>3. \A i \in 1..m : w[i] = written[i] BY <2>2
    <3>4. \A i \in 1..n : w[m + i] = batch[i] BY <1>2, <2>2
    <3>5. \A i \in 1..(m + n) : w[i] = IF i <= m THEN written[i] ELSE batch[i - m]
      BY <1>2, <2>2
    <3> QED BY <3>1, <3>2, <3>3, <3>4, <3>5
  <2> HIDE DEF w
  <2>4. written' = w BY <2>1 DEF w
  <2> QED BY <2>3, <2>4
<1>8. TypeOK'
  <2>1. Journal' \in Seq(Orders) /\ Len(Journal') = Len(past) + m + n /\ Len(Journal) = Len(past) + m
        /\ Len(past) \in Nat
    <3>1. Journal' = past \o written' /\ Journal = past \o written BY <1>0 DEF Journal
    <3>2. past \in Seq(Orders) /\ written \in Seq(Orders) /\ written' \in Seq(Orders)
          /\ Len(written') = m + n
      BY <1>0, <1>7
    <3>3. n \in Nat BY <1>2
    <3>4. Len(past \o written') = Len(past) + (m + n) /\ past \o written' \in Seq(Orders)
          /\ Len(past \o written) = Len(past) + m
      <4>1. past \o written' \in Seq(Orders) BY <3>2
      <4>2. Len(past \o written) = Len(past) + m BY <3>2
      <4>3. Len(past \o written') = Len(past) + Len(written') BY <3>2, SMTT(20)
      <4> QED BY <4>1, <4>2, <4>3, <3>2
    <3>5. Len(past) \in Nat /\ m \in Nat BY <3>2
    <3> QED BY <3>1, <3>3, <3>4, <3>5
  <2>2. committed \in 0..m /\ stable \in 0..Len(Journal) BY <1>0 DEF TypeOK
  <2>3. committed' \in 0..Len(written') /\ stable' \in 0..Len(Journal')
    BY <1>0, <1>2, <1>7, <2>1, <2>2
  <2> QED BY <1>0, <1>7, <2>3 DEF TypeOK, Write, worldVars
<1>9. ASSUME NEW p \in Orders
      PROVE  /\ InPast(p)' <=> InPast(p)
             /\ InJournal(p)' <=> InJournal(p) \/ p \in S
             /\ Released(p) => Released(p)'
  <2>1. InPast(p)' <=> InPast(p) BY <1>0 DEF InPast
  <2>2. InJournal(p) => InJournal(p)'
    <3>1. \A i \in 1..m : i \in 1..(m + n) /\ written'[i] = written[i] BY <1>2, <1>7
    <3> QED BY <1>7, <3>1 DEF InJournal
  <2>3. p \in S => InJournal(p)'
    <3>1. \A i \in 1..n : m + i \in DOMAIN written' /\ written'[m + i] = batch[i] BY <1>2, <1>7
    <3>2. ASSUME p \in S PROVE \E i \in 1..n : batch[i] = p BY <1>1, <1>5, <3>2
    <3> QED BY <3>1, <3>2 DEF InJournal
  <2>4. InJournal(p)' => InJournal(p) \/ p \in S
    <3>1. ASSUME NEW i \in 1..(m + n), written'[i] = p PROVE InJournal(p) \/ p \in S
      <4>1. CASE i <= m
        <5>1. i \in DOMAIN written /\ written[i] = p BY <1>7, <3>1, <4>1
        <5> QED BY <5>1 DEF InJournal
      <4>2. CASE ~(i <= m)
        <5>1. i - m \in 1..n /\ batch[i - m] = p BY <1>2, <1>7, <3>1, <4>2
        <5> QED BY <1>4, <5>1
      <4> QED BY <4>1, <4>2
    <3> QED BY <1>7, <3>1 DEF InJournal
  <2>5. Released(p) => Released(p)'
    <3>1. \A i \in 1..committed : i \in 1..m BY <1>0, <1>7 DEF TypeOK
    <3> QED BY <1>0, <1>7, <3>1 DEF Released
  <2> QED BY <2>1, <2>2, <2>3, <2>4, <2>5
<1>10. StageInv' BY <1>0 DEF ExchangeInv, StageInv
<1>11. FileInv'
  <2>1. \A i, j \in DOMAIN written' : written'[i] = written'[j] => i = j
    <3>1. ASSUME NEW i \in 1..(m + n), NEW j \in 1..(m + n), written'[i] = written'[j]
          PROVE  i = j
      <4>1. CASE i <= m /\ j <= m
        <5>1. i \in DOMAIN written /\ j \in DOMAIN written /\ written[i] = written[j]
          BY <1>7, <3>1, <4>1
        <5> QED BY <5>1 DEF ExchangeInv, FileInv
      <4>2. CASE i > m /\ j > m
        <5>1. i - m \in 1..n /\ j - m \in 1..n /\ batch[i - m] = batch[j - m]
          BY <1>2, <1>7, <3>1, <4>2
        <5>2. i - m = j - m BY <1>3, <5>1
        <5> QED BY <1>7, <5>2
      <4>3. CASE i <= m /\ j > m
        <5>1. i \in DOMAIN written /\ j - m \in 1..n /\ written[i] = batch[j - m]
          BY <1>2, <1>7, <3>1, <4>3
        <5> QED BY <1>4, <1>6, <5>1 DEF InJournal
      <4>4. CASE i > m /\ j <= m
        <5>1. j \in DOMAIN written /\ i - m \in 1..n /\ written[j] = batch[i - m]
          BY <1>2, <1>7, <3>1, <4>4
        <5> QED BY <1>4, <1>6, <5>1 DEF InJournal
      <4> QED BY <1>7, <4>1, <4>2, <4>3, <4>4
    <3> QED BY <1>7, <3>1
  <2>2. ASSUME NEW p \in Orders
        PROVE  /\ InPast(p)' => stage'[p] \in {"lost", "ok", "unavailable"} /\ status'[p] = "new"
               /\ InJournal(p)' => status'[p] \in {"published", "acked", "unconfirmed"}
               /\ status'[p] = "acked" => Released(p)'
    <3>1. /\ InPast(p) => stage[p] \in {"lost", "ok", "unavailable"} /\ status[p] = "new"
          /\ InJournal(p) => status[p] \in {"published", "acked", "unconfirmed"}
          /\ status[p] = "acked" => Released(p)
      BY DEF ExchangeInv, FileInv
    <3> QED BY <1>0, <1>6, <1>9, <3>1
  <2> QED BY <1>0, <2>1, <2>2 DEF ExchangeInv, FileInv
<1>12. ASSUME NEW p \in Orders
       PROVE  Holds(p)' <=> Holds(p)
  BY <1>0, <1>6, <1>9 DEF Holds
<1>13. IdInv' BY <1>0, <1>12, IdFrame DEF ExchangeInv
<1>14. DiskInv'
  <2>1. ASSUME NEW p \in Orders, OnDisk(p) PROVE OnDisk(p)'
    <3>1. PICK i \in 1..stable : Journal[i] = p BY <2>1 DEF OnDisk
    <3>2. i \in 1..Len(Journal) BY <1>0, <3>1, Joined DEF TypeOK, Journal
    <3>3. Journal'[i] = p BY <1>0, <1>1, <1>5, <3>1, <3>2, FileGrows
    <3> QED BY <1>0, <3>1, <3>3 DEF OnDisk
  <2> QED BY <1>0, <2>1 DEF ExchangeInv, DiskInv
<1> QED BY <1>0, <1>8, <1>10, <1>11, <1>13, <1>14, AckStays DEF ExchangeInv

\* A release, after an fsync of all that comes before it.
LEMMA CommitKeeps ==
  ASSUME ExchangeInv, up, Commit, Fsynced, UNCHANGED <<ingressVars, up, past, crashes, conn, answer>>
  PROVE  ExchangeInv'
<1>0. /\ past \in Seq(Orders) /\ written \in Seq(Orders) /\ TypeOK
      /\ UNCHANGED <<past, written, executed, closed, failed, status, ids, up, stage, archived,
                     crashes, conn, answer>>
      /\ committed' \in (committed + 1)..Len(written) /\ stable' = Len(past) + committed'
  BY DEF ExchangeInv, TypeOK, Commit, ingressVars, Fsynced
<1>1. /\ committed \in Nat /\ committed' \in Nat /\ committed <= committed'
      /\ Len(past) \in Nat /\ Len(written) \in Nat /\ Len(Journal) = Len(past) + Len(written)
      /\ Journal' = Journal
  BY <1>0, Joined DEF TypeOK, Journal
<1>2. stable \in Nat /\ stable' \in Nat /\ stable <= stable' /\ stable' \in 0..Len(Journal)
  BY <1>0, <1>1 DEF ExchangeInv, DiskInv, TypeOK
<1>3. TypeOK'
  <2>1. executed' \in 0..committed' /\ committed' \in 0..Len(written') BY <1>0, <1>1 DEF TypeOK
  <2> QED BY <1>0, <1>1, <1>2, <2>1 DEF TypeOK
<1>4. StageInv' BY <1>0 DEF ExchangeInv, StageInv
<1>5. ASSUME NEW p \in Orders
      PROVE  /\ InPast(p)' <=> InPast(p)
             /\ InJournal(p)' <=> InJournal(p)
             /\ Released(p) => Released(p)'
             /\ Holds(p)' <=> Holds(p)
             /\ OnDisk(p) => OnDisk(p)'
  <2>1. InPast(p)' <=> InPast(p) BY <1>0 DEF InPast
  <2>2. InJournal(p)' <=> InJournal(p) BY <1>0 DEF InJournal
  <2>3. Released(p) => Released(p)'
    <3>1. \A i \in 1..committed : i \in 1..committed' BY <1>1
    <3> QED BY <1>0, <3>1 DEF Released
  <2>4. OnDisk(p) => OnDisk(p)'
    <3>1. \A i \in 1..stable : i \in 1..stable' BY <1>2
    <3> QED BY <1>1, <3>1 DEF OnDisk
  <2> QED BY <1>0, <2>1, <2>2, <2>3, <2>4 DEF Holds
<1>6. FileInv' BY <1>0, <1>5 DEF ExchangeInv, FileInv
<1>7. IdInv' BY <1>0, <1>5, IdFrame DEF ExchangeInv
<1>8. DiskInv' BY <1>0, <1>1, <1>2, <1>5 DEF ExchangeInv, DiskInv
<1> QED BY <1>0, <1>3, <1>4, <1>6, <1>7, <1>8, AckStays DEF ExchangeInv

\* The end of the journal, the engine and Close.
LEMMA RingStepKeeps ==
  ASSUME ExchangeInv, up, Fail \/ Execute \/ Close, UNCHANGED <<ingressVars, worldVars, conn, answer>>
  PROVE  ExchangeInv'
<1>0. /\ UNCHANGED <<past, stable, written, committed, status, ids, up, stage, archived, crashes,
                     conn, answer>>
      /\ executed' \in {executed, executed + 1} /\ executed' \in 0..committed
      /\ closed' \in BOOLEAN /\ failed' \in BOOLEAN
  <2>1. /\ executed \in Nat /\ committed \in Nat /\ executed <= committed
        /\ closed \in BOOLEAN /\ failed \in BOOLEAN
    BY DEF ExchangeInv, TypeOK
  <2>2. CASE Fail BY <2>1, <2>2 DEF Fail, ingressVars, worldVars
  <2>3. CASE Close BY <2>1, <2>3 DEF Close, ingressVars, worldVars
  <2>4. CASE Execute BY <2>1, <2>4 DEF Execute, ingressVars, worldVars
  <2> QED BY <2>2, <2>3, <2>4
<1>1. TypeOK' BY <1>0 DEF ExchangeInv, TypeOK, Journal
<1>2. StageInv' BY <1>0 DEF ExchangeInv, StageInv
<1>3. ASSUME NEW p \in Orders
      PROVE  /\ InPast(p)' <=> InPast(p)
             /\ InJournal(p)' <=> InJournal(p)
             /\ Released(p)' <=> Released(p)
             /\ Holds(p)' <=> Holds(p)
  BY <1>0 DEF InPast, InJournal, Released, Holds
<1>4. FileInv' BY <1>0, <1>3 DEF ExchangeInv, FileInv
<1>5. IdInv' BY <1>0, <1>3, IdFrame DEF ExchangeInv
<1>6. DiskInv' BY <1>0, DiskFrame DEF ExchangeInv, DiskInv
<1> QED BY <1>0, <1>1, <1>2, <1>4, <1>5, <1>6, AckStays DEF ExchangeInv

-----------------------------------------------------------------------------
(* Crashes and boots.                                                        *)

\* What is left of the file holds what it held, at the same place.
LEMMA FileShrinks ==
  ASSUME TypeOK, NEW n \in 0..Len(Journal), past' = SubSeq(Journal, 1, n), written' = <<>>
  PROVE  /\ past' \in Seq(Orders) /\ Len(past') = n /\ DOMAIN past' = 1..n
         /\ Journal' = past' /\ n \in Nat
         /\ \A i \in 1..n : i \in DOMAIN Journal /\ past'[i] = Journal[i]
<1>1. Journal \in Seq(Orders) BY Joined DEF TypeOK, Journal
<1>2. Journal' = past' \o <<>> BY DEF Journal
<1> DEFINE J == Journal
<1>3. J \in Seq(Orders) /\ n \in 0..Len(J) /\ past' = SubSeq(J, 1, n) BY <1>1
<1> HIDE DEF J
<1>4. /\ past' \in Seq(Orders) /\ Len(past') = n /\ DOMAIN past' = 1..n
      /\ \A i \in 1..n : i \in DOMAIN J /\ past'[i] = J[i]
  <2>1. n \in Nat /\ Len(J) \in Nat /\ n <= Len(J) /\ DOMAIN J = 1..Len(J) BY <1>3
  <2>2. \A i \in 1..n : i \in 1..Len(J) /\ J[i] \in Orders BY <1>3, <2>1
  <2>3. past' \in Seq(Orders) /\ Len(past') = n BY <1>3, <2>1
  <2>4. \A i \in 1..n : past'[i] = J[i] BY <1>3, <2>1
  <2> QED BY <2>1, <2>2, <2>3, <2>4
<1>5. Journal' = past' BY <1>2, <1>4, ConcatEmptySeq
<1> QED BY <1>3, <1>4, <1>5 DEF J

\* The end of a process: its memory is lost, and the file keeps its fsynced part.
LEMMA GoneKeeps ==
  ASSUME ExchangeInv, NEW n \in stable..Len(Journal), crashes < MaxCrashes, Gone(n),
         stable' \in {stable, n}
  PROVE  ExchangeInv'
<1>0. /\ TypeOK /\ past \in Seq(Orders) /\ written \in Seq(Orders)
      /\ stage \in [Orders -> Stages] /\ stable \in Nat
      /\ conn \in [Conns -> [open : BOOLEAN, done : Nat, read : Nat]]
      /\ past' = SubSeq(Journal, 1, n) /\ written' = <<>>
      /\ up' = FALSE /\ committed' = 0 /\ executed' = 0 /\ closed' = FALSE /\ failed' = FALSE
      /\ status' = [o \in Orders |-> "new"] /\ ids' = {} /\ crashes' = crashes + 1
      /\ UNCHANGED <<archived, answer>>
  BY DEF ExchangeInv, TypeOK, Gone
<1>1. n \in 0..Len(Journal) /\ n \in Nat /\ stable <= n BY <1>0, Joined DEF Journal
<1>2. /\ past' \in Seq(Orders) /\ Len(past') = n /\ DOMAIN past' = 1..n
      /\ Journal' = past'
      /\ \A i \in 1..n : i \in DOMAIN Journal /\ past'[i] = Journal[i]
  BY <1>0, <1>1, FileShrinks
<1>3. \A p \in Orders : /\ stage'[p] = IF stage[p] \in InAdmit \cup InConfirm THEN "lost" ELSE stage[p]
                        /\ status'[p] = "new"
  BY <1>0 DEF Gone
<1>4. \A c \in Conns : /\ conn'[c].done = conn[c].done /\ conn'[c].read = conn[c].read
                       /\ conn'[c].open => conn[c].open
  BY <1>0 DEF Gone
<1>5. TypeOK'
  <2>1. stage' \in [Orders -> Stages] BY <1>0 DEF Gone, Stages
  <2>2. status' \in [Orders -> Statuses] BY <1>0 DEF Statuses
  <2>3. conn' \in [Conns -> [open : BOOLEAN, done : Nat, read : Nat]] BY <1>0 DEF Gone
  <2>4. \A c \in Conns : conn'[c].done <= conn'[c].read /\ conn'[c].read <= Len(Script[c])
    BY <1>0, <1>4 DEF TypeOK
  <2>5. written' \in Seq(Orders) /\ Len(written') = 0 BY <1>0
  <2>6. executed' \in 0..committed' /\ committed' \in 0..Len(written') BY <1>0, <2>5
  <2>7. stable' \in 0..Len(Journal') BY <1>0, <1>1, <1>2
  <2>8. crashes' \in 0..MaxCrashes BY <1>0, ExchangeAssumption DEF TypeOK
  <2> QED BY <1>0, <1>2, <2>1, <2>2, <2>3, <2>4, <2>5, <2>6, <2>7, <2>8 DEF TypeOK
<1>6. StageInv' BY <1>0, <1>3 DEF ExchangeInv, StageInv, InAdmit, InConfirm
<1>7. ASSUME NEW p \in Orders
      PROVE  /\ InPast(p)' => InPast(p) \/ InJournal(p)
             /\ ~InJournal(p)'
             /\ OnDisk(p) => InPast(p)' /\ OnDisk(p)'
  <2>1. InPast(p)' => InPast(p) \/ InJournal(p) BY <1>0, <1>2, FileParts DEF InPast
  <2>2. ~InJournal(p)'
    <3>1. DOMAIN written' = {} BY <1>0
    <3> QED BY <3>1 DEF InJournal
  <2>3. ASSUME OnDisk(p) PROVE InPast(p)' /\ OnDisk(p)'
    <3>1. PICK i \in 1..stable : Journal[i] = p BY <2>3 DEF OnDisk
    <3>2. i \in 1..n /\ i \in 1..stable' BY <1>0, <1>1, <3>1
    <3>3. past'[i] = p /\ Journal'[i] = p BY <1>2, <3>1, <3>2
    <3> QED BY <1>2, <3>2, <3>3 DEF InPast, OnDisk
  <2> QED BY <2>1, <2>2, <2>3
<1>8. ASSUME NEW p \in Orders, InPast(p)' PROVE stage'[p] \in {"lost", "ok", "unavailable"}
  <2>1. stage[p] \in {"admitted", "archive", "ok", "unavailable", "lost"}
    BY <1>0, <1>7, <1>8, FiledStage DEF ExchangeInv
  <2> QED BY <1>3, <2>1 DEF InConfirm
<1>9. FileInv'
  <2>1. ASSUME NEW i \in DOMAIN past', NEW j \in DOMAIN past', past'[i] = past'[j] PROVE i = j
    <3>1. i \in DOMAIN Journal /\ j \in DOMAIN Journal /\ Journal[i] = Journal[j] BY <1>2, <2>1
    <3> QED BY <1>0, <3>1, FileOnce DEF ExchangeInv
  <2>2. DOMAIN written' = {} BY <1>0
  <2>3. \A p \in Orders : stage'[p] \notin InAdmit \cup InConfirm
    BY <1>3 DEF InAdmit, InConfirm
  <2> QED BY <1>0, <1>3, <1>7, <1>8, <2>1, <2>2, <2>3 DEF FileInv
<1>10. IdInv'
  <2>1. \A p \in Orders : Holds(p)' => Holds(p)
    <3>1. ASSUME NEW p \in Orders, Holds(p)' PROVE Holds(p)
      <4>1. stage'[p] \notin {"publish", "forget"} BY <1>3 DEF InAdmit
      <4>2. InPast(p)' BY <1>3, <1>7, <3>1, <4>1 DEF Holds
      <4> QED BY <1>7, <4>2 DEF Holds
    <3> QED BY <3>1
  <2> QED BY <1>0, <2>1 DEF ExchangeInv, IdInv
<1>11. DiskInv'
  <2>1. stable' <= Len(past') + committed' BY <1>0, <1>1, <1>2
  <2>2. ASSUME NEW p \in Orders, stage'[p] \in {"archive", "ok"} PROVE OnDisk(p)'
    <3>1. stage[p] \in {"archive", "ok"} BY <1>3, <2>2
    <3> QED BY <1>7, <3>1 DEF ExchangeInv, DiskInv
  <2> QED BY <1>0, <2>1, <2>2 DEF DiskInv
<1>12. AckInv'
  <2>1. \A p \in Orders : /\ stage[p] = "ok" => stage'[p] = "ok"
                          /\ stage[p] = "idle" => stage'[p] = "idle"
    BY <1>3 DEF InAdmit, InConfirm
  <2>2. \A c \in Conns : \A i \in DOMAIN Script[c] : Frame(c, i) \in Orders BY FramesApart
  <2>3. \A c \in Conns : \A i \in DOMAIN Script[c] : Frame(c, i)' = Frame(c, i) BY DEF Frame
  <2> QED BY <1>0, <1>4, <2>1, <2>2, <2>3 DEF ExchangeInv, AckInv
<1> QED BY <1>5, <1>6, <1>9, <1>10, <1>11, <1>12 DEF ExchangeInv

\* main registers the ids of the past before anyone can send an order.
LEMMA BootKeeps ==
  ASSUME ExchangeInv, Boot
  PROVE  ExchangeInv'
<1>0. /\ UNCHANGED <<past, stable, written, committed, executed, closed, failed, status, stage,
                     archived, crashes, conn, answer>>
      /\ ~up /\ up' = TRUE /\ ids' = {IdOf[past[i]] : i \in DOMAIN past}
      /\ past \in Seq(Orders) /\ TypeOK
  BY DEF ExchangeInv, TypeOK, Boot, logVars
<1>1. TypeOK'
  <2>1. ids' \subseteq Range(IdOf)
    <3>1. \A i \in DOMAIN past : past[i] \in Orders BY <1>0
    <3> QED BY <1>0, <3>1, IngressAssumption DEF Range
  <2> QED BY <1>0, <2>1 DEF TypeOK, Journal
<1>2. StageInv' BY <1>0 DEF ExchangeInv, StageInv
<1>3. ASSUME NEW p \in Orders
      PROVE  /\ InPast(p)' <=> InPast(p)
             /\ InJournal(p)' <=> InJournal(p)
             /\ Released(p)' <=> Released(p)
             /\ Holds(p)' <=> Holds(p)
  BY <1>0 DEF InPast, InJournal, Released, Holds
<1>4. FileInv' BY <1>0, <1>3 DEF ExchangeInv, FileInv
<1>5. IdInv'
  <2>1. ASSUME NEW p \in Orders PROVE Holds(p) <=> InPast(p)
    <3>1. ~InJournal(p)
      <4>1. DOMAIN written = {} BY <1>0 DEF ExchangeInv, FileInv
      <4> QED BY <4>1 DEF InJournal
    <3>2. status[p] = "new" /\ stage[p] \notin {"publish", "forget"}
      BY <1>0 DEF ExchangeInv, FileInv, InAdmit
    <3> QED BY <3>1, <3>2 DEF Holds
  <2>2. \A i \in DOMAIN past : past[i] \in Orders BY <1>0
  <2>3. ids' = {IdOf[p] : p \in {q \in Orders : InPast(q)}} BY <1>0, <2>2 DEF InPast
  <2>4. ids' = {IdOf[p] : p \in {q \in Orders : Holds(q)'}} BY <1>3, <2>1, <2>3
  <2> QED BY <1>3, <2>4 DEF ExchangeInv, IdInv
<1>6. DiskInv' BY <1>0, DiskFrame DEF ExchangeInv, DiskInv
<1> QED BY <1>0, <1>1, <1>2, <1>4, <1>5, <1>6, AckStays DEF ExchangeInv

-----------------------------------------------------------------------------
(* The theorems.                                                             *)

\* An idle exchange with an empty file satisfies the invariant.
LEMMA ExchangeInvInit == Init => ExchangeInv
<1> SUFFICES ASSUME Init PROVE ExchangeInv
  OBVIOUS
<1>0. /\ written = <<>> /\ committed = 0 /\ executed = 0 /\ closed = FALSE /\ failed = FALSE
      /\ status = [o \in Orders |-> "new"] /\ ids = {} /\ stage = [o \in Orders |-> "idle"]
      /\ archived = {} /\ up = TRUE /\ past = <<>> /\ stable = 0 /\ crashes = 0
      /\ conn = [c \in Conns |-> [open |-> TRUE, done |-> 0, read |-> 0]]
      /\ answer = [o \in Orders |-> "none"]
  BY DEF Init, LogInit, IngressInit
<1>1. \A o \in Orders : status[o] = "new" /\ stage[o] = "idle" /\ answer[o] = "none" BY <1>0
<1>2. \A o \in Orders : ~InPast(o) /\ ~InJournal(o) /\ ~Holds(o)
  <2>1. DOMAIN past = {} /\ DOMAIN written = {} BY <1>0
  <2> QED BY <1>1, <2>1 DEF InPast, InJournal, Holds
<1>3. TypeOK
  <2>1. written \in Seq(Orders) /\ past \in Seq(Orders) /\ Len(written) = 0 /\ Len(past) = 0
    BY <1>0
  <2>2. Len(Journal) \in Nat BY <2>1, Joined DEF Journal
  <2>3. executed \in 0..committed /\ committed \in 0..Len(written) /\ stable \in 0..Len(Journal)
    BY <1>0, <2>1, <2>2
  <2>4. crashes \in 0..MaxCrashes BY <1>0, ExchangeAssumption
  <2>5. status \in [Orders -> Statuses] /\ stage \in [Orders -> Stages]
        /\ answer \in [Orders -> Results \cup {"none"}]
    BY <1>0 DEF Statuses, Stages
  <2>6. conn \in [Conns -> [open : BOOLEAN, done : Nat, read : Nat]] BY <1>0
  <2>7. \A c \in Conns : conn[c].done <= conn[c].read /\ conn[c].read <= Len(Script[c])
    <3>1. \A c \in Conns : Len(Script[c]) \in Nat BY ExchangeAssumption
    <3> QED BY <1>0, <3>1
  <2> QED BY <1>0, <2>1, <2>3, <2>4, <2>5, <2>6, <2>7 DEF TypeOK
<1>4. StageInv BY <1>0, <1>1 DEF StageInv
<1>5. FileInv
  <2>1. DOMAIN past = {} /\ DOMAIN written = {} BY <1>0
  <2> QED BY <1>0, <1>1, <1>2, <2>1 DEF FileInv
<1>6. IdInv BY <1>0, <1>2 DEF IdInv
<1>7. DiskInv
  <2>1. Len(past) = 0 BY <1>0
  <2> QED BY <1>0, <1>1, <2>1 DEF DiskInv
<1>8. AckInv
  <2>1. \A c \in Conns : \A i \in DOMAIN Script[c] : Frame(c, i) \in Orders /\ i \in Nat /\ i > 0
    BY FramesApart, ExchangeAssumption
  <2>2. \A c \in Conns : conn[c].done = 0 /\ conn[c].read = 0 BY <1>0
  <2> QED BY <1>1, <2>1, <2>2 DEF AckInv
<1> QED BY <1>3, <1>4, <1>5, <1>6, <1>7, <1>8 DEF ExchangeInv

\* A step of a connection keeps the invariant.
LEMMA ConnectionKeeps ==
  ASSUME ExchangeInv, NEW c \in Conns, Connection(c)
  PROVE  ExchangeInv'
<1>1. up BY DEF Connection
<1>2. ASSUME NEW i \in Batch(c) PROVE Frame(c, i) \in Orders
  BY BatchInScript, FramesApart DEF ExchangeInv
<1>3. CASE AdmitFrame(c)
  <2>1. PICK i \in Batch(c) : Admit(Frame(c, i)) BY <1>3 DEF AdmitFrame
  <2>2. UNCHANGED <<worldVars, conn, answer>> BY <1>3 DEF AdmitFrame
  <2> QED BY <1>1, <1>2, <2>1, <2>2, RegisterKeeps, HandleKeeps, ForgetKeeps DEF Admit
<1>4. CASE ConfirmFrame(c)
  <2>1. PICK i \in Batch(c) : Confirm(Frame(c, i)) BY <1>4 DEF ConfirmFrame, Turn, At
  <2>2. UNCHANGED <<worldVars, conn, answer>> BY <1>4 DEF ConfirmFrame
  <2> QED BY <1>1, <1>2, <2>1, <2>2, HandleKeeps
<1> QED BY <1>1, <1>3, <1>4, ReadKeeps, WriteAcksKeeps, HangUpKeeps DEF Connection

\* A crash keeps the whole file, a power loss at least its fsynced part.
LEMMA CrashKeeps ==
  ASSUME ExchangeInv, Crash \/ PowerLoss
  PROVE  ExchangeInv'
<1>1. Len(Journal) \in stable..Len(Journal) /\ stable \in Nat
  <2>1. Len(Journal) \in Nat /\ stable \in 0..Len(Journal)
    BY Joined DEF ExchangeInv, TypeOK, Journal
  <2> QED BY <2>1
<1>2. CASE Crash BY <1>1, <1>2, GoneKeeps DEF Crash
<1>3. CASE PowerLoss BY <1>3, GoneKeeps DEF PowerLoss
<1> QED BY <1>2, <1>3

\* Every step keeps the invariant.
LEMMA ExchangeInvNext == ExchangeInv /\ [Next]_vars => ExchangeInv'
<1> SUFFICES ASSUME ExchangeInv, [Next]_vars PROVE ExchangeInv'
  OBVIOUS
<1>1. ASSUME UNCHANGED vars PROVE ExchangeInv'
  <2>1. UNCHANGED <<logVars, ingressVars, worldVars, conn, answer>> BY <1>1 DEF vars
  <2>2. TypeOK' BY <2>1 DEF ExchangeInv, TypeOK, logVars, ingressVars, worldVars, Journal
  <2> QED BY <2>1, <2>2, OnlyConns, AckStays DEF ExchangeInv, ingressVars
<1>2. ASSUME RingStep PROVE ExchangeInv'
  <2>1. CASE Journaling
    <3>1. CASE Write /\ UNCHANGED stable BY <2>1, <3>1, WriteKeeps DEF Journaling, worldVars
    <3>2. CASE Commit /\ Fsynced BY <2>1, <3>2, CommitKeeps DEF Journaling
    <3> QED BY <2>1, <3>1, <3>2 DEF Journaling
  <2>2. CASE /\ up /\ (Fail \/ Execute \/ Close)
             /\ UNCHANGED <<ingressVars, worldVars, conn, answer>>
    BY <2>2, RingStepKeeps
  <2> QED BY <1>2, <2>1, <2>2 DEF RingStep
<1> QED BY <1>1, <1>2, ConnectionKeeps, CrashKeeps, BootKeeps DEF Next

\* The invariant holds for any connections, scripts, batch limit and number of crashes.
THEOREM ExchangeInvariantHolds == Spec => []ExchangeInv
BY ExchangeInvInit, ExchangeInvNext, PTL DEF Spec

\* A confirmed or archived order is in the fsynced part of the file, whatever crashes
\* (tcp_server.go, AckOK; ingest.go, Confirm).
THEOREM ConfirmedOrdersSurvive == Spec => []ConfirmedSurvives
<1>1. ExchangeInv => ConfirmedSurvives
  BY DEF ExchangeInv, StageInv, AckInv, DiskInv, OnDisk, ConfirmedSurvives
<1> QED BY <1>1, ExchangeInvariantHolds, PTL

\* The journal holds an order_id at most once over all lives of the process
\* (ingest.go, Register; main.go registers the ids of the past first).
THEOREM OrderIdsAtMostOnce == Spec => []AtMostOnce
<1>1. ExchangeInv => AtMostOnce
  <2> SUFFICES ASSUME ExchangeInv, NEW i \in DOMAIN Journal, NEW j \in DOMAIN Journal,
                      IdOf[Journal[i]] = IdOf[Journal[j]]
               PROVE  i = j
    BY DEF AtMostOnce
  <2>1. Journal \in Seq(Orders) BY Joined DEF ExchangeInv, TypeOK, Journal
  <2>2. Journal[i] \in Orders /\ Journal[j] \in Orders BY <2>1
  <2>3. Holds(Journal[i]) /\ Holds(Journal[j]) BY FileParts DEF ExchangeInv, Holds
  <2>4. Journal[i] = Journal[j] BY <2>2, <2>3 DEF ExchangeInv, IdInv
  <2> QED BY <2>4, FileOnce DEF ExchangeInv
<1> QED BY <1>1, ExchangeInvariantHolds, PTL

\* No refused order leaves its id behind, and no unknown one gives it up
\* (ingest.go, Admit, Confirm).
THEOREM IdsAreAccountedFor == Spec => []IdsAccountedFor
<1>1. ExchangeInv => IdsAccountedFor
  <2> SUFFICES ASSUME ExchangeInv PROVE IdsAccountedFor
    OBVIOUS
  <2> DEFINE listed(p) == \/ \E i \in DOMAIN Journal : Journal[i] = p
                          \/ stage[p] \in {"publish", "forget"}
                          \/ status[p] \in {"published", "unconfirmed"}
  <2>1. \A p \in Orders : Holds(p) <=> listed(p) BY FileParts DEF ExchangeInv, Holds
  <2>2. {p \in Orders : Holds(p)} = {p \in Orders : listed(p)} BY <2>1
  <2> QED BY <2>2 DEF ExchangeInv, IdInv, IdsAccountedFor
<1> QED BY <1>1, ExchangeInvariantHolds, PTL

\* The answered frames of a connection are a prefix of what its client sent, and only
\* the last of them can be a rejection (tcp_server.go, handleConnection).
THEOREM AcksComeInOrder == Spec => []AcksInOrder
<1>1. ExchangeInv => AcksInOrder
  <2> SUFFICES ASSUME ExchangeInv, NEW c \in Conns, NEW i \in DOMAIN Script[c],
                      NEW j \in DOMAIN Script[c], i < j, answer[Frame(c, j)] # "none"
               PROVE  answer[Frame(c, i)] \in Results \ {"unavailable"}
    BY DEF AcksInOrder
  <2>1. i \in Nat /\ j \in Nat /\ conn[c].done \in Nat
    BY ExchangeAssumption DEF ExchangeInv, TypeOK
  <2>2. ~(j > conn[c].done) BY DEF ExchangeInv, AckInv
  <2>3. i < conn[c].done BY <2>1, <2>2
  <2>4. answer[Frame(c, i)] # "unavailable" /\ answer[Frame(c, i)] # "none"
    BY <2>1, <2>3 DEF ExchangeInv, AckInv
  <2>5. answer[Frame(c, i)] \in Results \cup {"none"} BY FramesApart DEF ExchangeInv, TypeOK
  <2> QED BY <2>4, <2>5
<1> QED BY <1>1, ExchangeInvariantHolds, PTL
=============================================================================
