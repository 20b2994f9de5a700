-------------------------- MODULE PmicWatchdogProofs --------------------------
(***************************************************************************)
(* What a transfer leaves behind, what set-up has written when the device  *)
(* enters NORMAL, and that its watchdogs never make it give up, proved for *)
(* every table of responses, every set of quests and any number of         *)
(* disturbances; the last one for every threshold they leave a margin to.  *)
(***************************************************************************)
EXTENDS PmicWatchdog, SequenceTheorems, TLAPS

-------------------------------------------------------------------------------
(* What a transfer leaves behind.                                          *)

USE DEF Context

States == {"load", "await", "take"}

\* The frames in the SPI module never outnumber the transfers under way.
Shared ==
    /\ pc \in [Context -> States]
    /\ DOMAIN todo = Context
    /\ \A c \in Context : pc[c] # "load" => todo[c] # <<>>
    /\ todo["isr"] # <<>> => pc["main"] # "take"
    /\ \A c \in Context : pc[c] = "take" => intFlag
    /\ (pc["main"] = "load" /\ pc["isr"] = "load") => ~intFlag /\ shift = None /\ txbuf = None
    /\ (pc["main"] = "load" \/ pc["isr"] = "load") =>
           /\ ~(shift # None /\ txbuf # None)
           /\ ~(shift # None /\ intFlag)
           /\ ~(txbuf # None /\ intFlag)
    /\ ~(shift # None /\ txbuf # None /\ intFlag)
Untorn == ~torn => Shared

(* At first nothing is under way.                                          *)
LEMMA UntornAtFirst == Init => Untorn
<1> SUFFICES ASSUME Init PROVE Shared
  BY DEF Untorn
<1> QED BY DEF Init, Shared, States

(* A transfer that ends is no longer under way and leaves the others       *)
(* alone.                                                                  *)
LEMMA Completed ==
  ASSUME Shared, NEW c \in Context, NEW answer, Complete(c, answer)
  PROVE  /\ pc' = [pc EXCEPT ![c] = "load"]
         /\ DOMAIN todo' = Context
         /\ \A x \in Context \ {c} : todo'[x] = todo[x]
BY DEF Complete, Shared

(* Every step keeps the frames in the module below the transfers.          *)
LEMMA UntornKept == Untorn /\ [Next]_vars => Untorn'
<1> SUFFICES ASSUME Untorn, [Next]_vars, ~torn' PROVE Shared'
  BY DEF Untorn
<1> USE DEF States
<1>0. CASE UNCHANGED vars
  <2> ~torn
    BY <1>0 DEF vars, history
  <2> QED BY <1>0 DEF vars, spi, driver, history, Untorn, Shared
<1>1. ASSUME NEW c \in Context, Load(c) PROVE Shared'
  <2> ~torn /\ Shared
    BY <1>1 DEF Load, history, Untorn
  <2> QED BY <1>1 DEF Load, Shared, Runs, Busy
<1>2. ASSUME NEW c \in Context, SeeFlag(c) PROVE Shared'
  <2> ~torn /\ Shared
    BY <1>2 DEF SeeFlag, history, Untorn
  <2> QED BY <1>2 DEF SeeFlag, Shared, Runs, Busy, spi
<1>3. ASSUME NEW c \in Context, Take(c) PROVE Shared'
  <2> ~torn /\ Shared
    BY <1>3 DEF Take, history, Untorn
  <2>1. /\ pc' = [pc EXCEPT ![c] = "load"]
        /\ DOMAIN todo' = Context
        /\ \A x \in Context \ {c} : todo'[x] = todo[x]
    BY <1>3, Completed DEF Take
  <2> QED BY <1>3, <2>1 DEF Take, Shared, Runs, Busy
<1>4. ASSUME NEW c \in Context, TimeOut(c) PROVE Shared'
  <2> ~torn /\ Shared
    BY <1>4 DEF TimeOut, history, Untorn
  <2>1. /\ pc' = [pc EXCEPT ![c] = "load"]
        /\ DOMAIN todo' = Context
        /\ \A x \in Context \ {c} : todo'[x] = todo[x]
    BY <1>4, Completed DEF TimeOut
  <2> QED BY <1>4, <2>1 DEF TimeOut, Shared, Runs, Busy
<1>5. ASSUME NEW answer, Shifted(answer), ~torn, UNCHANGED driver PROVE Shared'
  BY <1>5 DEF Shifted, Untorn, Shared, driver
<1>6. CASE Shift
  BY <1>5, <1>6 DEF Shift, history
<1>7. CASE Disturb
  <2> ~torn /\ UNCHANGED driver
    BY <1>7 DEF Disturb
  <2>1. CASE shift' = txbuf /\ txbuf' = None /\ UNCHANGED <<rxbuf, intFlag, dev>>
    BY <2>1 DEF Untorn, Shared, driver
  <2> QED BY <1>5, <1>7, <2>1 DEF Disturb
<1>8. CASE Strobe
  <2> ~torn /\ ~(Busy("main") /\ pc["main"] = "take")
    BY <1>8 DEF Strobe
  <2> Shared
    BY DEF Untorn
  <2>1. /\ pc' = pc /\ todo'["main"] = todo["main"] /\ DOMAIN todo' = Context
        /\ todo["isr"] = <<>> /\ pc["main"] # "take"
    BY <1>8 DEF Strobe, Shared, Busy
  <2>2. UNCHANGED <<shift, txbuf, intFlag>>
    BY <1>8 DEF Strobe, spi
  <2> QED BY <2>1, <2>2 DEF Shared
<1>9. CASE ReadStatusRegisters
  <2> ~torn
    BY <1>9 DEF ReadStatusRegisters, history
  <2> QED BY <1>9 DEF ReadStatusRegisters, Untorn, Shared, spi, Idle, Busy
<1>10. CASE Save
  BY <1>10 DEF Save, Untorn, Shared, spi, driver
<1>11. CASE Tick
  <2> ~torn
    BY <1>11 DEF Tick, history
  <2> QED BY <1>11 DEF Tick, Untorn, Shared, spi, driver
<1> QED
  BY <1>0, <1>1, <1>2, <1>3, <1>4, <1>6, <1>7, <1>8, <1>9, <1>10, <1>11 DEF Next, TransferData

(* Whatever goes wrong on the bus and wherever the timer interrupt falls,  *)
(* a transfer that ends leaves no frame and no flag in the SPI module for  *)
(* the next one to take for its own, unless the interrupt came between a   *)
(* flag test and its read.                                                 *)
THEOREM TransfersLeaveNothing == Spec => []NothingLeftBehind
<1>1. Untorn => NothingLeftBehind
  BY DEF Untorn, Shared, NothingLeftBehind, Busy, States
<1> QED
  BY <1>1, UntornAtFirst, UntornKept, PTL DEF Spec
-------------------------------------------------------------------------------
(* How far set-up is, and the types.                                       *)

(* What is still to be asked of the device, and what it has been told.     *)
Device == [state : {"init", "normal", "failed"}, written : Nat, armed : BOOLEAN,
           trigger : {0, 1}, age : 0..2, windowErrors : Nat, quest : Quests,
           count : 1..4, right : BOOLEAN, beat : 0..4, functionalErrors : Nat]

Reads == {"window_read", "window_write", "quest_read"}
Answers == {"window_read", "window_write", "resp3", "resp2", "resp1", "resp0"}
ServeSteps == {"window_read", "window_write", "quest_read", "resp3", "resp2", "resp1", "resp0", "status"}

\* Set-up is at its k-th access.
AtSetup(k) ==
    /\ todo["main"] \in Seq(Steps)
    /\ Len(todo["main"]) = 34 - k
    /\ \A i \in 1..Len(todo["main"]) : todo["main"][i] = SetupSteps[k + i - 1]

\* The frame of the k-th access of set-up, from its request to its answer.
\* Only an echo that is the request shows that it was written.
InTransfer(k) ==
    LET request == Request(SetupSteps[k])
    IN  \/ pc["main"] = "load" /\ shift = None /\ (k <= 14 => dev.written = k - 1)
        \/ pc["main"] = "await" /\ shift = request /\ ~intFlag /\ (k <= 14 => dev.written = k - 1)
        \/ pc["main"] # "load" /\ shift = None /\ (k <= 14 /\ rxbuf = request /\ intFlag => dev.written = k)

SettingUp(k) ==
    /\ AtSetup(k)
    /\ todo["isr"] = <<>> /\ timer = FALSE /\ masked = 0 /\ txbuf = None
    /\ InTransfer(k)
    /\ (shift # None \/ pc["main"] = "load") => ~intFlag
    /\ pc["main"] = "take" => intFlag
    /\ pc["isr"] = "load"
    /\ k <= 31 => dev.state = "init"
    /\ k > 14 => dev.written = 14
    /\ k \in 18..21 => lastQuest \in 0..15

\* What the interrupt and the log dump ask of the device.
Serving ==
    /\ todo["main"] \in Seq({"status"})
    /\ shift # None => shift.step \in ServeSteps
    /\ txbuf # None => txbuf.step \in ServeSteps
    /\ dev.state # "init" => dev.written = 14
    /\ \/ todo["isr"] \in Seq(Reads)
       \/ /\ lastQuest \in 0..15
          /\ todo["isr"] \in Seq(Answers)
          /\ \A i \in 1..Len(todo["isr"]) : todo["isr"][i] = "resp0" => i = Len(todo["isr"])

Served == Serving \/ \E k \in 1..33 : SettingUp(k)

(* A step repeated.                                                        *)
LEMMA TimesSeq ==
  ASSUME NEW S, NEW n \in Nat, NEW s \in S
  PROVE  Times(n, s) \in Seq(S) /\ Len(Times(n, s)) = n /\ \A i \in Int : 1 <= i /\ i <= n => Times(n, s)[i] = s
BY DEF Times

(* Two lists of steps joined, by place.                                    *)
LEMMA Joined ==
  ASSUME NEW S, NEW s \in Seq(S), NEW t \in Seq(S)
  PROVE  /\ s \o t \in Seq(S) /\ Len(s \o t) = Len(s) + Len(t)
         /\ \A i \in Int : 1 <= i /\ i <= Len(s) => (s \o t)[i] = s[i]
         /\ \A i \in Int : Len(s) < i /\ i <= Len(s) + Len(t) => (s \o t)[i] = t[i - Len(s)]
<1>1. /\ s \o t \in Seq(S) /\ Len(s \o t) = Len(s) + Len(t)
      /\ \A i \in 1..(Len(s) + Len(t)) : (s \o t)[i] = IF i <= Len(s) THEN s[i] ELSE t[i - Len(s)]
  BY ConcatProperties
<1> QED BY <1>1

\* Every access by name.
Named == {"unlock", "config", "lock", "clear", "devctrl", "devctrln", "devstat", "window_write",
          "window_read", "quest_read", "status", "resp3", "resp2", "resp1", "resp0"}
(* The steps the driver knows.                                             *)
LEMMA Names == Steps = Named
BY DEF Steps, Named, ReadSteps, ResponseIndex

(* What is at each place of set-up.                                        *)
LEMMA SetupList ==
  /\ SetupSteps \in Seq(Steps) /\ Len(SetupSteps) = 33
  /\ \A i \in Int : 1 <= i /\ i <= 14 => SetupSteps[i] \in {"unlock", "config", "lock"}
  /\ SetupSteps[15] = "window_read" /\ SetupSteps[16] = "window_write" /\ SetupSteps[17] = "quest_read"
  /\ SetupSteps[18] = "resp3" /\ SetupSteps[19] = "resp2" /\ SetupSteps[20] = "resp1" /\ SetupSteps[21] = "resp0"
  /\ \A i \in Int : 22 <= i /\ i <= 30 => SetupSteps[i] = "clear"
  /\ SetupSteps[31] = "devctrl" /\ SetupSteps[32] = "devctrln" /\ SetupSteps[33] = "devstat"
<1> DEFINE A == Times(4, "unlock")  B == Times(6, "config")  C == Times(4, "lock")
           D == Times(9, "clear")  E == <<"devctrl", "devctrln", "devstat">>
           AB == A \o B  ABC == AB \o C  ABCS == ABC \o StrobeReadSteps  
           ABCSA == ABCS \o AnswerSteps  ABCSAD == ABCSA \o D
<1>0. /\ "unlock" \in Steps /\ "config" \in Steps /\ "lock" \in Steps /\ "clear" \in Steps
      /\ "devctrl" \in Steps /\ "devctrln" \in Steps /\ "devstat" \in Steps
      /\ "window_read" \in Steps /\ "window_write" \in Steps /\ "quest_read" \in Steps
      /\ "resp3" \in Steps /\ "resp2" \in Steps /\ "resp1" \in Steps /\ "resp0" \in Steps
  BY Names DEF Named
<1>1. A \in Seq(Steps) /\ Len(A) = 4 /\ \A i \in Int : 1 <= i /\ i <= 4 => A[i] = "unlock"
  <2>1. 4 \in Nat
    OBVIOUS
  <2> QED BY <1>0, <2>1, TimesSeq, Zenon
<1>2. B \in Seq(Steps) /\ Len(B) = 6 /\ \A i \in Int : 1 <= i /\ i <= 6 => B[i] = "config"
  <2>1. 6 \in Nat
    OBVIOUS
  <2> QED BY <1>0, <2>1, TimesSeq, Zenon
<1>3. C \in Seq(Steps) /\ Len(C) = 4 /\ \A i \in Int : 1 <= i /\ i <= 4 => C[i] = "lock"
  <2>1. 4 \in Nat
    OBVIOUS
  <2> QED BY <1>0, <2>1, TimesSeq, Zenon
<1>4. D \in Seq(Steps) /\ Len(D) = 9 /\ \A i \in Int : 1 <= i /\ i <= 9 => D[i] = "clear"
  <2>1. 9 \in Nat
    OBVIOUS
  <2> QED BY <1>0, <2>1, TimesSeq, Zenon
<1>5. E \in Seq(Steps) /\ Len(E) = 3 /\ E[1] = "devctrl" /\ E[2] = "devctrln" /\ E[3] = "devstat"
  BY <1>0
<1>6. /\ StrobeReadSteps \in Seq(Steps) /\ Len(StrobeReadSteps) = 3
      /\ StrobeReadSteps[1] = "window_read" /\ StrobeReadSteps[2] = "window_write" /\ StrobeReadSteps[3] = "quest_read"
  BY <1>0 DEF StrobeReadSteps
<1>7. /\ AnswerSteps \in Seq(Steps) /\ Len(AnswerSteps) = 4
      /\ AnswerSteps[1] = "resp3" /\ AnswerSteps[2] = "resp2" /\ AnswerSteps[3] = "resp1" /\ AnswerSteps[4] = "resp0"
  BY <1>0 DEF AnswerSteps
<1>8. SetupSteps = ABCSAD \o E
  BY DEF SetupSteps
<1> HIDE DEF A, B, C, D, E
<1>9. /\ AB \in Seq(Steps) /\ Len(AB) = 10
      /\ \A i \in Int : 1 <= i /\ i <= 4 => AB[i] = A[i]
      /\ \A i \in Int : 4 < i /\ i <= 10 => AB[i] = B[i - 4]
  <2>0. A \in Seq(Steps) /\ B \in Seq(Steps)
    BY <1>1, <1>2
  <2>1. /\ AB \in Seq(Steps) /\ Len(AB) = Len(A) + Len(B)
        /\ \A i \in Int : 1 <= i /\ i <= Len(A) => AB[i] = A[i]
        /\ \A i \in Int : Len(A) < i /\ i <= Len(A) + Len(B) => AB[i] = B[i - Len(A)]
    BY <2>0, Joined, Zenon
  <2> HIDE DEF AB
  <2> QED BY <1>1, <1>2, <2>1
<1> HIDE DEF AB
<1>10. /\ ABC \in Seq(Steps) /\ Len(ABC) = 14
       /\ \A i \in Int : 1 <= i /\ i <= 10 => ABC[i] = AB[i]
       /\ \A i \in Int : 10 < i /\ i <= 14 => ABC[i] = C[i - 10]
  <2>0. AB \in Seq(Steps) /\ C \in Seq(Steps)
    BY <1>3, <1>9
  <2>1. /\ ABC \in Seq(Steps) /\ Len(ABC) = Len(AB) + Len(C)
        /\ \A i \in Int : 1 <= i /\ i <= Len(AB) => ABC[i] = AB[i]
        /\ \A i \in Int : Len(AB) < i /\ i <= Len(AB) + Len(C) => ABC[i] = C[i - Len(AB)]
    BY <2>0, Joined, Zenon
  <2> HIDE DEF ABC
  <2> QED BY <1>3, <1>9, <2>1
<1> HIDE DEF ABC
<1>11. /\ ABCS \in Seq(Steps) /\ Len(ABCS) = 17
       /\ \A i \in Int : 1 <= i /\ i <= 14 => ABCS[i] = ABC[i]
       /\ \A i \in Int : 14 < i /\ i <= 17 => ABCS[i] = StrobeReadSteps[i - 14]
  <2>0. ABC \in Seq(Steps) /\ StrobeReadSteps \in Seq(Steps)
    BY <1>6, <1>10
  <2>1. /\ ABCS \in Seq(Steps) /\ Len(ABCS) = Len(ABC) + Len(StrobeReadSteps)
        /\ \A i \in Int : 1 <= i /\ i <= Len(ABC) => ABCS[i] = ABC[i]
        /\ \A i \in Int : Len(ABC) < i /\ i <= Len(ABC) + Len(StrobeReadSteps) => ABCS[i] = StrobeReadSteps[i - Len(ABC)]
    BY <2>0, Joined, Zenon
  <2> HIDE DEF ABCS
  <2> QED BY <1>6, <1>10, <2>1
<1> HIDE DEF ABCS
<1>12. /\ ABCSA \in Seq(Steps) /\ Len(ABCSA) = 21
       /\ \A i \in Int : 1 <= i /\ i <= 17 => ABCSA[i] = ABCS[i]
       /\ \A i \in Int : 17 < i /\ i <= 21 => ABCSA[i] = AnswerSteps[i - 17]
  <2>0. ABCS \in Seq(Steps) /\ AnswerSteps \in Seq(Steps)
    BY <1>7, <1>11
  <2>1. /\ ABCSA \in Seq(Steps) /\ Len(ABCSA) = Len(ABCS) + Len(AnswerSteps)
        /\ \A i \in Int : 1 <= i /\ i <= Len(ABCS) => ABCSA[i] = ABCS[i]
        /\ \A i \in Int : Len(ABCS) < i /\ i <= Len(ABCS) + Len(AnswerSteps) => ABCSA[i] = AnswerSteps[i - Len(ABCS)]
    BY <2>0, Joined, Zenon
  <2> HIDE DEF ABCSA
  <2> QED BY <1>7, <1>11, <2>1
<1> HIDE DEF ABCSA
<1>13. /\ ABCSAD \in Seq(Steps) /\ Len(ABCSAD) = 30
       /\ \A i \in Int : 1 <= i /\ i <= 21 => ABCSAD[i] = ABCSA[i]
       /\ \A i \in Int : 21 < i /\ i <= 30 => ABCSAD[i] = D[i - 21]
  <2>0. ABCSA \in Seq(Steps) /\ D \in Seq(Steps)
    BY <1>4, <1>12
  <2>1. /\ ABCSAD \in Seq(Steps) /\ Len(ABCSAD) = Len(ABCSA) + Len(D)
        /\ \A i \in Int : 1 <= i /\ i <= Len(ABCSA) => ABCSAD[i] = ABCSA[i]
        /\ \A i \in Int : Len(ABCSA) < i /\ i <= Len(ABCSA) + Len(D) => ABCSAD[i] = D[i - Len(ABCSA)]
    BY <2>0, Joined, Zenon
  <2> HIDE DEF ABCSAD
  <2> QED BY <1>4, <1>12, <2>1
<1> HIDE DEF ABCSAD
<1>14. /\ SetupSteps \in Seq(Steps) /\ Len(SetupSteps) = 33
       /\ \A i \in Int : 1 <= i /\ i <= 30 => SetupSteps[i] = ABCSAD[i]
       /\ \A i \in Int : 30 < i /\ i <= 33 => SetupSteps[i] = E[i - 30]
  <2>0. ABCSAD \in Seq(Steps) /\ E \in Seq(Steps)
    BY <1>5, <1>13
  <2>1. /\ SetupSteps \in Seq(Steps) /\ Len(SetupSteps) = Len(ABCSAD) + Len(E)
        /\ \A i \in Int : 1 <= i /\ i <= Len(ABCSAD) => SetupSteps[i] = ABCSAD[i]
        /\ \A i \in Int : Len(ABCSAD) < i /\ i <= Len(ABCSAD) + Len(E) => SetupSteps[i] = E[i - Len(ABCSAD)]
    BY <1>8, <2>0, Joined, Zenon
  <2> QED BY <1>5, <1>13, <2>1
<1>15. ASSUME NEW i \in Int, 1 <= i, i <= 14 PROVE SetupSteps[i] \in {"unlock", "config", "lock"}
  <2>1. SetupSteps[i] = ABCSAD[i] /\ ABCSAD[i] = ABCSA[i] /\ ABCSA[i] = ABCS[i] /\ ABCS[i] = ABC[i]
    <3>1. i <= 30 /\ i <= 21 /\ i <= 17
      BY <1>15
    <3> QED BY <1>11, <1>12, <1>13, <1>14, <1>15, <3>1, Zenon
  <2>2. CASE i <= 4
    <3>1. i <= 10
      BY <2>2
    <3>2. ABC[i] = AB[i] /\ AB[i] = A[i] /\ A[i] = "unlock"
      BY <1>1, <1>9, <1>10, <1>15, <2>2, <3>1, Zenon
    <3> QED BY <2>1, <3>2, Zenon
  <2>3. CASE 4 < i /\ i <= 10
    <3>1. i - 4 \in Int /\ 1 <= i - 4 /\ i - 4 <= 6
      BY <2>3
    <3>2. ABC[i] = AB[i]
      BY <1>10, <1>15, <2>3, Zenon
    <3>3. AB[i] = B[i - 4]
      BY <1>9, <2>3
    <3>4. B[i - 4] = "config"
      BY <1>2, <3>1, Zenon
    <3> QED BY <2>1, <3>2, <3>3, <3>4, Zenon
  <2>4. CASE 10 < i
    <3>1. i - 10 \in Int /\ 1 <= i - 10 /\ i - 10 <= 4
      BY <1>15, <2>4
    <3>2. ABC[i] = C[i - 10] /\ C[i - 10] = "lock"
      BY <1>3, <1>10, <1>15, <2>4, <3>1, Zenon
    <3> QED BY <2>1, <3>2, Zenon
  <2>5. i <= 4 \/ (4 < i /\ i <= 10) \/ 10 < i
    BY <1>15
  <2> QED BY <2>2, <2>3, <2>4, <2>5, Zenon
<1>16. ASSUME NEW i \in Int, 15 <= i, i <= 17 PROVE SetupSteps[i] = StrobeReadSteps[i - 14]
  <2>1. 1 <= i /\ i <= 30 /\ i <= 21 /\ 14 < i
    BY <1>16
  <2>2. SetupSteps[i] = ABCSAD[i] /\ ABCSAD[i] = ABCSA[i] /\ ABCSA[i] = ABCS[i]
    BY <1>12, <1>13, <1>14, <1>16, <2>1, Zenon
  <2>3. ABCS[i] = StrobeReadSteps[i - 14]
    BY <1>11, <1>16, <2>1, Zenon
  <2> QED BY <2>2, <2>3, Zenon
<1>17. ASSUME NEW i \in Int, 18 <= i, i <= 21 PROVE SetupSteps[i] = AnswerSteps[i - 17]
  <2>1. 1 <= i /\ i <= 30 /\ i <= 21 /\ 17 < i
    BY <1>17
  <2> QED BY <1>12, <1>13, <1>14, <1>17, <2>1, Zenon
<1>18. ASSUME NEW i \in Int, 22 <= i, i <= 30 PROVE SetupSteps[i] = "clear"
  <2>1. 1 <= i /\ 21 < i /\ i - 21 \in Int /\ 1 <= i - 21 /\ i - 21 <= 9
    BY <1>18
  <2>2. SetupSteps[i] = ABCSAD[i]
    BY <1>14, <1>18, <2>1, Zenon
  <2>3. ABCSAD[i] = D[i - 21]
    BY <1>13, <1>18, <2>1, Zenon
  <2>4. D[i - 21] = "clear"
    BY <1>4, <2>1, Zenon
  <2> QED BY <2>2, <2>3, <2>4, Zenon
<1>19. SetupSteps[15] = "window_read" /\ SetupSteps[16] = "window_write" /\ SetupSteps[17] = "quest_read"
  <2>1. 15 \in Int /\ 15 <= 15 /\ 15 <= 17 /\ 15 - 14 = 1
    OBVIOUS
  <2>2. 16 \in Int /\ 15 <= 16 /\ 16 <= 17 /\ 16 - 14 = 2
    OBVIOUS
  <2>3. 17 \in Int /\ 15 <= 17 /\ 17 <= 17 /\ 17 - 14 = 3
    OBVIOUS
  <2> QED BY <1>6, <1>16, <2>1, <2>2, <2>3, Zenon
<1>20. SetupSteps[18] = "resp3" /\ SetupSteps[19] = "resp2" /\ SetupSteps[20] = "resp1" /\ SetupSteps[21] = "resp0"
  <2>1. 18 \in Int /\ 18 <= 18 /\ 18 <= 21 /\ 18 - 17 = 1
    OBVIOUS
  <2>2. 19 \in Int /\ 18 <= 19 /\ 19 <= 21 /\ 19 - 17 = 2
    OBVIOUS
  <2>3. 20 \in Int /\ 18 <= 20 /\ 20 <= 21 /\ 20 - 17 = 3
    OBVIOUS
  <2>4. 21 \in Int /\ 18 <= 21 /\ 21 <= 21 /\ 21 - 17 = 4
    OBVIOUS
  <2> QED BY <1>7, <1>17, <2>1, <2>2, <2>3, <2>4, Zenon
<1>21. SetupSteps[31] = "devctrl" /\ SetupSteps[32] = "devctrln" /\ SetupSteps[33] = "devstat"
  BY <1>5, <1>14
<1> QED
  BY <1>14, <1>15, <1>18, <1>19, <1>20, <1>21, Zenon

Responses == {"resp3", "resp2", "resp1", "resp0"}

\* The device as it was, as far as its state and what it has been told go.
Same(x, d) == x \in Device /\ x.written = d.written /\ x.state = d.state

(* The fields a frame or a tick may change leave that alone.               *)
LEMMA Fields ==
  ASSUME NEW d \in Device
  PROVE  /\ \A x \in {0, 1} : Same([d EXCEPT !.trigger = x], d)
         /\ \A x \in 0..2 : Same([d EXCEPT !.age = x], d)
         /\ \A x \in Nat : Same([d EXCEPT !.windowErrors = x], d)
         /\ \A x \in Quests : Same([d EXCEPT !.quest = x], d)
         /\ \A x \in 1..4 : Same([d EXCEPT !.count = x], d)
         /\ \A x \in BOOLEAN : Same([d EXCEPT !.right = x], d)
         /\ \A x \in BOOLEAN : Same([d EXCEPT !.armed = x], d)
         /\ \A x \in 0..4 : Same([d EXCEPT !.beat = x], d)
         /\ \A x \in Nat : Same([d EXCEPT !.functionalErrors = x], d)
<1>1. \A x \in {0, 1} : Same([d EXCEPT !.trigger = x], d)
  BY DEF Device, Same
<1>2. \A x \in 0..2 : Same([d EXCEPT !.age = x], d)
  BY DEF Device, Same
<1>3. \A x \in Nat : Same([d EXCEPT !.windowErrors = x], d)
  BY DEF Device, Same
<1>4. \A x \in Quests : Same([d EXCEPT !.quest = x], d)
  BY DEF Device, Same
<1>5. \A x \in 1..4 : Same([d EXCEPT !.count = x], d)
  BY DEF Device, Same
<1>6. \A x \in BOOLEAN : Same([d EXCEPT !.right = x], d)
  BY DEF Device, Same
<1>7. \A x \in BOOLEAN : Same([d EXCEPT !.armed = x], d)
  BY DEF Device, Same
<1>8. \A x \in 0..4 : Same([d EXCEPT !.beat = x], d)
  BY DEF Device, Same
<1>9. \A x \in Nat : Same([d EXCEPT !.functionalErrors = x], d)
  BY DEF Device, Same
<1> QED
  BY <1>1, <1>2, <1>3, <1>4, <1>5, <1>6, <1>7, <1>8, <1>9

(* The thresholds only ever take a device out of NORMAL.                   *)
LEMMA Judged ==
  ASSUME NEW d \in Device
  PROVE  /\ Judge(d) \in Device /\ Judge(d).written = d.written
         /\ Judge(d).state = d.state \/ (d.state = "normal" /\ Judge(d).state = "failed")
BY DEF Judge, Device

(* Error counters stay numbers.                                            *)
LEMMA Counted == \A n \in Nat : Fail(n) \in Nat /\ Succeed(n) \in Nat
BY DEF Fail, Succeed

(* A trigger changes nothing the device was told.                          *)
LEMMA TriggeredDevice ==
  ASSUME NEW d \in Device, NEW bit \in {0, 1}, NEW x \in Triggered(d, bit)
  PROVE  Same(x, d)
<1> DEFINE e == [d EXCEPT !.trigger = bit]
           opened == [e EXCEPT !.age = 0]
<1>1. \/ x = d
      \/ x = [opened EXCEPT !.windowErrors = Fail(@)]
      \/ x = [opened EXCEPT !.windowErrors = Succeed(@)]
  BY DEF Triggered
<1>2. Same(e, d)
  BY Fields
<1> HIDE DEF e
<1>3. e \in Device
  BY <1>2 DEF Same
<1>4. 0 \in 0..2
  OBVIOUS
<1>5. Same(opened, e)
  BY <1>3, <1>4, Fields, Zenon
<1> HIDE DEF opened
<1>6. opened \in Device /\ opened.windowErrors \in Nat
  BY <1>5 DEF Same, Device
<1>7. \A n \in Nat : Same([opened EXCEPT !.windowErrors = n], opened)
  BY <1>6, Fields, Zenon
<1>8. Same(d, d)
  BY DEF Same
<1> QED BY <1>1, <1>2, <1>5, <1>6, <1>7, <1>8, Counted, Zenon DEF Same

(* An answer is right or wrong.                                            *)
LEMMA RightOrNot ==
  ASSUME NEW d, NEW data
  PROVE  (d.right /\ data = WatchdogResponses[d.quest][d.count]) \in BOOLEAN
OBVIOUS

(* Nor does an answer to a quest.                                          *)
LEMMA AnsweredDevice ==
  ASSUME NEW d \in Device, NEW step, NEW data, NEW x \in Answered(d, step, data)
  PROVE  Same(x, d)
<1> DEFINE right == d.right /\ data = WatchdogResponses[d.quest][d.count]
           first == [d EXCEPT !.count = 1]
           clean == [first EXCEPT !.right = TRUE]
           fresh(q) == [clean EXCEPT !.quest = q]
<1> DEFINE Wrong == {[fresh(q) EXCEPT !.functionalErrors = Fail(@)] : q \in Quests}
           Right == {[[fresh(q) EXCEPT !.beat = 0] EXCEPT !.functionalErrors = Succeed(fresh(q).functionalErrors)] : q \in Quests}
           More == {[[d EXCEPT !.count = @ + 1] EXCEPT !.right = right]}
<1>0. x \in IF (step = "resp0") # (d.count = 4) \/ (step = "resp0" /\ ~right) THEN Wrong
            ELSE IF step = "resp0" THEN Right ELSE More
  BY DEF Answered
<1>1. x \in Wrong \/ x \in Right \/ (d.count # 4 /\ x \in More)
  <2> HIDE DEF Wrong, Right, More, right
  <2> QED BY <1>0, Zenon
<1>2. right \in BOOLEAN
  BY RightOrNot, Zenon
<1> HIDE DEF right
<1>3. Same(first, d)
  <2>1. 1 \in 1..4
    OBVIOUS
  <2> QED BY <2>1, Fields, Zenon
<1> HIDE DEF first
<1>4. first \in Device
  BY <1>3 DEF Same
<1>5. Same(clean, first)
  BY <1>4, Fields, Zenon
<1> HIDE DEF clean
<1>6. clean \in Device
  BY <1>5 DEF Same
<1>7. ASSUME NEW q \in Quests
      PROVE  Same(fresh(q), clean)
  BY <1>6, Fields, Zenon
<1> HIDE DEF fresh
<1>8. ASSUME NEW q \in Quests
      PROVE  /\ Same([fresh(q) EXCEPT !.functionalErrors = Fail(@)], d)
             /\ Same([[fresh(q) EXCEPT !.beat = 0] EXCEPT !.functionalErrors = Succeed(fresh(q).functionalErrors)], d)
  <2>1. fresh(q) \in Device /\ fresh(q).functionalErrors \in Nat
    BY <1>7 DEF Same, Device
  <2>2. Same([fresh(q) EXCEPT !.functionalErrors = Fail(@)], fresh(q))
    BY <2>1, Fields, Counted, Zenon
  <2> DEFINE fed == [fresh(q) EXCEPT !.beat = 0]
  <2>3. 0 \in 0..4
    OBVIOUS
  <2>4. Same(fed, fresh(q))
    BY <2>1, <2>3, Fields, Zenon
  <2> HIDE DEF fed
  <2>5. fed \in Device
    BY <2>4 DEF Same
  <2>6. Same([fed EXCEPT !.functionalErrors = Succeed(fresh(q).functionalErrors)], fed)
    BY <2>1, <2>5, Fields, Counted, Zenon
  <2> QED BY <1>3, <1>5, <1>7, <2>2, <2>4, <2>6, Zenon DEF Same, fed
<1>9. CASE d.count # 4 /\ x \in More
  <2> DEFINE more == [d EXCEPT !.count = @ + 1]
  <2>1. d.count + 1 \in 1..4
    <3>1. d.count \in 1..4
      BY DEF Device
    <3> QED BY <1>9, <3>1
  <2>2. Same(more, d)
    BY <2>1, Fields, Zenon
  <2> HIDE DEF more
  <2>3. more \in Device
    BY <2>2 DEF Same
  <2>4. Same([more EXCEPT !.right = right], more)
    BY <1>2, <2>3, Fields, Zenon
  <2>5. x = [more EXCEPT !.right = right]
    BY <1>9 DEF more
  <2> QED BY <2>2, <2>4, <2>5, Zenon DEF Same
<1> QED BY <1>1, <1>8, <1>9, Zenon

Quiet == Named \ {"unlock", "config", "lock", "devctrln"}

\* A request as the driver makes them.
Sound(f) ==
    /\ f \in Frames /\ f.step \in Named
    /\ f.op = IF f.step \in ReadSteps THEN "read" ELSE "write"
    /\ f.step = "window_write" => f.data \in {0, 1}

Loaded == (shift # None => Sound(shift)) /\ (txbuf # None => Sound(txbuf))

(* Types, sound frames, and how far set-up is.                             *)
WatchdogInv == TypeOK /\ Loaded /\ Served

(* What a request does to the device: protected accesses are counted, and  *)
(* all but the last step of set-up leave it in INIT or out of it.          *)
LEMMA Processed ==
  ASSUME dev \in Device, NEW f, Sound(f), NEW e \in Process(f)
  PROVE  /\ e \in Device
         /\ f.step \in Quiet => e.written = dev.written /\ (e.state = "init" <=> dev.state = "init")
         /\ f.step = "devctrln" => e.written = dev.written
         /\ f.step \in {"unlock", "config", "lock"} =>
                e.written = dev.written + 1 /\ (e.state = "init" <=> dev.state = "init")
<1> DEFINE d == [dev EXCEPT !.armed = f.op = "write" /\ f.step = "devctrl"]
           told == [d EXCEPT !.written = @ + 1]
           woken == [d EXCEPT !.state = "normal"]
<1>1. PICK x : /\ e = Judge(x)
               /\ x \in CASE f.op # "write" -> {d}
                          [] f.step = "window_write" -> Triggered(d, f.data)
                          [] f.step \in DOMAIN ResponseIndex -> Answered(d, f.step, f.data)
                          [] f.step \in {"unlock", "config", "lock"} -> {told}
                          [] f.step = "devctrln" /\ dev.armed -> {woken}
                          [] OTHER -> {d}
  BY Zenon DEF Process
<1>2. Same(d, dev)
  <2>1. (f.op = "write" /\ f.step = "devctrl") \in BOOLEAN
    OBVIOUS
  <2> QED BY <2>1, Fields, Zenon
<1> HIDE DEF d
<1>3. d \in Device /\ d.written = dev.written /\ d.state = dev.state
  BY <1>2 DEF Same
<1>4. told \in Device /\ told.written = dev.written + 1 /\ told.state = dev.state
  BY <1>3 DEF Device
<1>5. woken \in Device /\ woken.written = dev.written
  BY <1>3 DEF Device
<1> HIDE DEF told, woken
<1>6. ASSUME NEW y \in Device
      PROVE  Judge(y) \in Device /\ Judge(y).written = y.written /\ (Judge(y).state = "init" <=> y.state = "init")
  BY Judged, Zenon
<1>7. DOMAIN ResponseIndex = Responses
  BY DEF ResponseIndex, Responses
<1>8. /\ f.op # "write" <=> f.step \in ReadSteps
      /\ f.step \in Named
  BY DEF Sound
<1>9. CASE f.step \in ReadSteps
  <2>1. x = d
    BY <1>1, <1>7, <1>8, <1>9 DEF ReadSteps, Responses
  <2> QED BY <1>1, <1>3, <1>6, <1>9, <2>1 DEF ReadSteps
<1>10. CASE f.step = "window_write"
  <2>1. x \in Triggered(d, f.data) /\ f.data \in {0, 1}
    BY <1>1, <1>7, <1>8, <1>10 DEF ReadSteps, Responses, Sound
  <2>2. Same(x, d)
    BY <1>3, <2>1, TriggeredDevice
  <2> QED BY <1>1, <1>3, <1>6, <1>10, <2>2 DEF Same
<1>11. CASE f.step \in Responses
  <2>1. x \in Answered(d, f.step, f.data)
    BY <1>1, <1>7, <1>8, <1>11 DEF ReadSteps, Responses
  <2>2. Same(x, d)
    BY <1>3, <2>1, AnsweredDevice
  <2> QED BY <1>1, <1>3, <1>6, <1>11, <2>2 DEF Same, Responses
<1>12. CASE f.step \in {"unlock", "config", "lock"}
  <2>1. x = told
    BY <1>1, <1>7, <1>8, <1>12 DEF ReadSteps, Responses
  <2> QED BY <1>1, <1>4, <1>6, <1>12, <2>1 DEF Quiet
<1>13. CASE f.step = "devctrln"
  <2>1. x = woken \/ x = d
    BY <1>1, <1>7, <1>8, <1>13 DEF ReadSteps, Responses
  <2> QED BY <1>1, <1>3, <1>5, <1>6, <1>13, <2>1 DEF Quiet
<1>14. CASE f.step \in {"clear", "devctrl"}
  <2>1. x = d
    BY <1>1, <1>7, <1>8, <1>14 DEF ReadSteps, Responses
  <2> QED BY <1>1, <1>3, <1>6, <1>14, <2>1
<1> QED
  BY <1>8, <1>9, <1>10, <1>11, <1>12, <1>13, <1>14 DEF Named, ReadSteps, Responses

(* A write is echoed as it is.                                             *)
LEMMA Echoed ==
  ASSUME dev \in Device, NEW f, Sound(f), NEW answer \in Echo(f)
  PROVE  answer \in Frames /\ (f.op = "write" => answer = f)
<1>1. CASE f.op = "write"
  <2>1. f.step \notin ReadSteps
    BY <1>1 DEF Sound
  <2> QED BY <1>1, <2>1 DEF Echo, Sound, ReadSteps
<1>2. CASE f.op # "write"
  <2>1. \A v \in 0..255 : [f EXCEPT !.data = v] \in Frames
    BY DEF Sound, Frames
  <2>2. dev.quest \in 0..255 /\ 128 * dev.trigger \in 0..255
    <3>1. dev.quest \in Quests /\ dev.trigger \in {0, 1}
      BY DEF Device
    <3>2. dev.quest \in 0..15
      BY <3>1, PmicAssumption, Zenon
    <3>3. 128 * dev.trigger \in {0, 128}
      BY <3>1
    <3> QED BY <3>2, <3>3
  <2>3. \E v \in 0..255 : answer = [f EXCEPT !.data = v]
    <3>1. \A v \in StatusValues : v \in 0..255
      BY PmicAssumption
    <3>2. 1 \in 0..255 /\ 2 \in 0..255
      OBVIOUS
    <3>3. CASE f.step = "devstat"
      <4>1. answer = [f EXCEPT !.data = IF Normal THEN 2 ELSE 1]
        BY <1>2, <3>3 DEF Echo
      <4> QED BY <3>2, <4>1
    <3>4. CASE f.step = "window_read"
      BY <1>2, <2>2, <3>4 DEF Echo
    <3>5. CASE f.step = "quest_read"
      BY <1>2, <2>2, <3>5 DEF Echo
    <3>6. CASE f.step \notin {"devstat", "window_read", "quest_read"}
      BY <1>2, <3>1, <3>6 DEF Echo
    <3> QED BY <3>3, <3>4, <3>5, <3>6
  <2> QED BY <1>2, <2>1, <2>3
<1> QED BY <1>1, <1>2

(* The driver makes sound requests.                                        *)
LEMMA Requested ==
  ASSUME windowStatus \in 0..255, NEW step \in Named, step \in Responses => lastQuest \in 0..15
  PROVE  /\ Sound(Request(step)) /\ Request(step).step = step
         /\ Request(step).op = IF step \in ReadSteps THEN "read" ELSE "write"
<1>1. CASE step \in ReadSteps
  <2>1. Request(step) = [op |-> "read", step |-> step, data |-> 0]
    BY <1>1 DEF Request, Frame
  <2> QED BY <1>1, <2>1, Names DEF Sound, Frames, ReadSteps
<1>2. CASE step \notin ReadSteps
  <2>0. DOMAIN ResponseIndex = Responses /\ \A r \in Responses : ResponseIndex[r] \in 1..4
    BY DEF ResponseIndex, Responses
  <2>1. PICK data \in 0..255 : /\ Request(step) = [op |-> "write", step |-> step, data |-> data]
                               /\ step = "window_write" => data \in {0, 1}
    <3>1. CASE step = "window_write"
      <4>1. 1 - windowStatus \div 128 \in {0, 1}
        OBVIOUS
      <4> QED BY <1>2, <2>0, <3>1, <4>1 DEF Request, Frame, Responses
    <3>2. CASE step \in Responses
      <4>1. WatchdogResponses[lastQuest][ResponseIndex[step]] \in 0..255
        BY <2>0, <3>2, PmicAssumption
      <4> QED BY <1>2, <2>0, <3>2, <4>1 DEF Request, Frame, Responses
    <3>3. CASE step # "window_write" /\ step \notin Responses
      BY <1>2, <2>0, <3>3 DEF Request, Frame, Responses
    <3> QED BY <3>1, <3>2, <3>3
  <2> QED BY <1>2, <2>1, Names DEF Sound, Frames
<1> QED BY <1>1, <1>2

(* Also of the access that is next.                                        *)
LEMMA HeadRequest ==
  ASSUME TypeOK, Served, NEW c \in Context, todo[c] # <<>>
  PROVE  /\ Head(todo[c]) \in Named
         /\ Head(todo[c]) \in Responses => lastQuest \in 0..15
         /\ windowStatus \in 0..255
<1>1. todo[c] \in Seq(Steps) /\ windowStatus \in 0..255
  BY DEF TypeOK
<1>2. Head(todo[c]) \in Steps /\ Len(todo[c]) > 0 /\ Head(todo[c]) = todo[c][1]
  BY <1>1
<1>3. CASE Serving
  <2>1. CASE c = "main"
    <3>1. Head(todo[c]) \in {"status"}
      BY <1>2, <1>3, <2>1, HeadTailProperties DEF Serving
    <3> QED BY <1>1, <1>2, <3>1, Names DEF Responses
  <2>2. CASE c = "isr" /\ todo["isr"] \in Seq(Reads)
    <3>1. Head(todo[c]) \in Reads
      BY <2>2, HeadTailProperties
    <3> QED BY <1>1, <1>2, <3>1, Names DEF Responses, Reads
  <2>3. CASE lastQuest \in 0..15
    BY <1>1, <1>2, <2>3, Names
  <2> QED BY <1>3, <2>1, <2>2, <2>3 DEF Serving
<1>4. ASSUME NEW k \in 1..33, SettingUp(k) PROVE Head(todo[c]) \in Responses => lastQuest \in 0..15
  <2>1. c = "main"
    BY <1>4 DEF SettingUp
  <2>2. Head(todo[c]) = SetupSteps[k]
    BY <1>2, <1>4, <2>1 DEF SettingUp, AtSetup
  <2>3. k \in 18..21 \/ SetupSteps[k] \notin Responses
    BY SetupList DEF Responses
  <2> QED BY <1>4, <2>2, <2>3 DEF SettingUp
<1> QED BY <1>1, <1>2, <1>3, <1>4, Names DEF Served

(* The device and the driver as they start.                                *)
LEMMA AtFirst == Init => WatchdogInv /\ SettingUp(1)
<1> SUFFICES ASSUME Init PROVE WatchdogInv /\ SettingUp(1)
  OBVIOUS
<1>1. dev \in Device /\ dev.written = 0 /\ dev.state = "init"
  <2>1. PICK t \in {0, 1}, q \in Quests :
           dev = [state |-> "init", written |-> 0, armed |-> FALSE, trigger |-> t, age |-> 0,
                  windowErrors |-> 0, quest |-> q, count |-> 1, right |-> TRUE, beat |-> 0,
                  functionalErrors |-> 0]
    BY DEF Init
  <2> QED BY <2>1 DEF Device
<1>2. AtSetup(1)
  BY SetupList DEF Init, AtSetup
<1>3. todo \in [Context -> Seq(Steps)]
  BY SetupList, EmptySeq DEF Init
<1>4. SettingUp(1)
  BY <1>1, <1>2 DEF Init, SettingUp, InTransfer
<1>5. AllOnes \in Frames
  BY DEF AllOnes, Frame, Frames
<1>6. TypeOK
  <2>1. intFlag \in BOOLEAN /\ timer \in BOOLEAN /\ dumped \in BOOLEAN /\ torn \in BOOLEAN
    BY DEF Init
  <2>2. pc \in [Context -> {"load", "await", "take"}]
    BY DEF Init
  <2>3. /\ windowStatus \in 0..255 /\ lastQuest \in 0..Illegal
        /\ phase \in {0, 1} /\ masked \in 0..SaveUnits
        /\ faults \in Nat /\ overlaps \in Nat /\ saves \in 0..MaxSaves
    <3>1. SaveUnits \in Nat /\ MaxSaves \in Nat
      BY PmicAssumption
    <3>2. windowStatus = 0 /\ lastQuest = 16 /\ phase = 0 /\ masked = 0
      BY DEF Init, Illegal
    <3>3. faults = 0 /\ overlaps = 0 /\ saves = 0
      BY DEF Init
    <3> QED BY <3>1, <3>2, <3>3 DEF Illegal
  <2>4. shift \in Frames \cup {None} /\ txbuf \in Frames \cup {None} /\ rxbuf \in Frames
    BY <1>5 DEF Init
  <2> QED BY <1>1, <1>3, <2>1, <2>2, <2>3, <2>4, Zenon DEF TypeOK, Device
<1>7. Loaded
  BY DEF Loaded, Init
<1>8. 1 \in 1..33
  OBVIOUS
<1> QED BY <1>4, <1>6, <1>7, <1>8, Zenon DEF WatchdogInv, Served

(* A frame handed to the SPI module.                                       *)
LEMMA LoadKept ==
  ASSUME WatchdogInv, NEW c \in Context, Load(c)
  PROVE  /\ WatchdogInv'
         /\ \A k \in 1..33 : SettingUp(k) => SettingUp(k)'
<1> DEFINE h == Head(todo[c])
           request == Request(h)
<1>1. TypeOK /\ Loaded /\ Served /\ todo[c] # <<>>
  BY DEF WatchdogInv, Load, Runs, Busy
<1>2. h \in Named /\ Sound(request) /\ request.step = h
  BY <1>1, HeadRequest, Requested
<1>3. request \in Frames
  BY <1>2 DEF Sound
<1>4. /\ shift' = request \/ shift' = shift
      /\ txbuf' = request \/ txbuf' = txbuf
      /\ pc' = [pc EXCEPT ![c] = "await"]
      /\ UNCHANGED <<todo, windowStatus, lastQuest, rxbuf, intFlag, dev>>
      /\ UNCHANGED <<phase, timer, masked, dumped, faults, overlaps, saves, torn>>
      /\ pc[c] = "load" /\ txbuf = None
      /\ shift = None => txbuf' = txbuf /\ shift' = request
  BY DEF Load, clock, history
<1> HIDE DEF request
<1>5. TypeOK'
  <2>1. pc' \in [Context -> {"load", "await", "take"}]
    BY <1>1, <1>4 DEF TypeOK
  <2>2. shift' \in Frames \cup {None} /\ txbuf' \in Frames \cup {None}
    BY <1>1, <1>3, <1>4, Zenon DEF TypeOK
  <2> QED BY <1>1, <1>4, <2>1, <2>2, Zenon DEF TypeOK
<1>6. Loaded'
  BY <1>1, <1>2, <1>4 DEF Loaded, Sound
<1>7. ASSUME Serving PROVE Served'
  <2>1. h \in ServeSteps
    <3>1. CASE c = "main"
      BY <1>1, <1>7, <3>1, HeadTailProperties DEF Serving, ServeSteps
    <3>2. CASE c = "isr" /\ todo["isr"] \in Seq(Reads)
      BY <1>1, <3>2, HeadTailProperties DEF Reads, ServeSteps
    <3>3. CASE c = "isr" /\ todo["isr"] \in Seq(Answers)
      BY <1>1, <3>3, HeadTailProperties DEF Answers, ServeSteps
    <3> QED BY <1>7, <3>1, <3>2, <3>3 DEF Serving
  <2>2. Serving'
    <3>1. shift' # None => shift'.step \in ServeSteps
      BY <1>2, <1>4, <1>7, <2>1 DEF Serving
    <3>2. txbuf' # None => txbuf'.step \in ServeSteps
      BY <1>2, <1>4, <1>7, <2>1 DEF Serving
    <3>3. UNCHANGED <<todo, lastQuest, dev>>
      BY <1>4
    <3> QED BY <1>7, <3>1, <3>2, <3>3, Zenon DEF Serving
  <2> QED BY <2>2, Zenon DEF Served
<1>8. ASSUME NEW k \in 1..33, SettingUp(k) PROVE SettingUp(k)'
  <2>1. c = "main" /\ shift = None /\ ~intFlag
    BY <1>1, <1>4, <1>8 DEF SettingUp, InTransfer
  <2>2. h = SetupSteps[k]
    BY <1>1, <1>8, <2>1 DEF SettingUp, AtSetup, TypeOK
  <2>3. Request(SetupSteps[k])' = request
    BY <1>4, <2>2 DEF Request, request, Frame
  <2>4. AtSetup(k)'
    BY <1>4, <1>8 DEF SettingUp, AtSetup
  <2>5. pc'["main"] = "await" /\ pc'["isr"] = "load"
    BY <1>1, <1>4, <1>8, <2>1 DEF TypeOK, SettingUp
  <2>6. InTransfer(k)'
    BY <1>4, <1>8, <2>1, <2>3, <2>5 DEF InTransfer, SettingUp
  <2> QED BY <1>4, <1>8, <2>1, <2>4, <2>5, <2>6 DEF SettingUp
<1>9. WatchdogInv'
  BY <1>1, <1>5, <1>6, <1>7, <1>8 DEF WatchdogInv, Served
<1> QED BY <1>8, <1>9, Zenon

(* The flag seen set.                                                      *)
LEMMA SeeFlagKept ==
  ASSUME WatchdogInv, NEW c \in Context, SeeFlag(c)
  PROVE  /\ WatchdogInv'
         /\ \A k \in 1..33 : SettingUp(k) => SettingUp(k)'
<1>1. TypeOK /\ Loaded /\ Served /\ todo[c] # <<>> /\ intFlag /\ pc[c] = "await"
  BY DEF WatchdogInv, SeeFlag, Runs, Busy
<1>2. /\ pc' = [pc EXCEPT ![c] = "take"]
      /\ UNCHANGED <<todo, windowStatus, lastQuest, shift>>
      /\ UNCHANGED <<txbuf, rxbuf, intFlag, dev>>
      /\ UNCHANGED <<phase, timer, masked, dumped, faults, overlaps, saves, torn>>
  BY DEF SeeFlag, clock, history, spi
<1>3. TypeOK'
  <2>1. pc' \in [Context -> {"load", "await", "take"}]
    BY <1>1, <1>2 DEF TypeOK
  <2>2. shift' \in Frames \cup {None} /\ txbuf' \in Frames \cup {None}
    BY <1>1, <1>2 DEF TypeOK
  <2> QED BY <1>1, <1>2, <2>1, <2>2, Zenon DEF TypeOK
<1>4. Loaded'
  BY <1>1, <1>2 DEF Loaded, Sound
<1>5. Serving => Serving'
  BY <1>2, Zenon DEF Serving
<1>6. ASSUME NEW k \in 1..33, SettingUp(k) PROVE SettingUp(k)'
  <2>1. c = "main" /\ shift = None
    BY <1>1, <1>6 DEF SettingUp, InTransfer
  <2>2. Request(SetupSteps[k])' = Request(SetupSteps[k])
    BY <1>2 DEF Request, Frame
  <2>3. AtSetup(k)'
    BY <1>2, <1>6 DEF SettingUp, AtSetup
  <2>4. pc'["main"] = "take" /\ pc'["isr"] = "load"
    BY <1>1, <1>2, <1>6, <2>1 DEF TypeOK, SettingUp
  <2>5. InTransfer(k)'
    BY <1>1, <1>2, <1>6, <2>1, <2>2, <2>4 DEF InTransfer, SettingUp
  <2> QED BY <1>1, <1>2, <1>6, <2>1, <2>3, <2>4, <2>5 DEF SettingUp
<1>7. WatchdogInv'
  BY <1>1, <1>3, <1>4, <1>5, <1>6 DEF WatchdogInv, Served
<1> QED BY <1>6, <1>7, Zenon

(* A quest is half a byte.                                                 *)
LEMMA Modulo == \A n \in 0..255 : n % 16 \in 0..15
OBVIOUS

\* Places in the list of set-up.
LEMMA SetupIndex ==
  /\ \A k \in Int : k <= 33 => 1 \in 1..(34 - k) /\ k + 1 - 1 = k
  /\ \A k \in Int : (k + 1) - 1 = k
  /\ \A k \in Int : k + 1 <= 14 => k <= 14
  /\ \A k \in Int : k + 1 \in 18..21 => k = 17 \/ k \in 18..20
OBVIOUS

(* A list of no steps.                                                     *)
LEMMA Empty == ASSUME NEW S, NEW s \in Seq(S), Len(s) = 0 PROVE s = <<>>
OBVIOUS

(* What is left of a list of steps.                                        *)
LEMMA Shorter ==
  ASSUME NEW S, NEW s \in Seq(S), s # <<>>
  PROVE  Tail(s) \in Seq(S) /\ <<>> \in Seq(S)
OBVIOUS

\* The driver's variables after an answer was taken or the wait ended.
LEMMA CompleteKept ==
  ASSUME WatchdogInv, NEW c \in Context, todo[c] # <<>>, NEW answer \in Frames, Complete(c, answer),
         UNCHANGED <<dev, timer, masked, phase, dumped, faults, overlaps, saves, torn, rxbuf>>,
         intFlag' = FALSE,
         (shift' = shift /\ txbuf' = txbuf /\ pc[c] = "take" /\ answer = rxbuf) \/
         (shift' = None /\ txbuf' = None /\ shift = None /\ txbuf = None /\ answer = AllOnes)
  PROVE  /\ WatchdogInv'
         /\ \A k \in 1..33 : SettingUp(k) =>
                todo'["main"] = <<>> \/ (k + 1 \in 1..33 /\ Accepted(Request(SetupSteps[k]), answer) /\ SettingUp(k + 1)')
<1> DEFINE step == Head(todo[c])
           request == Request(step)
           ok == Accepted(request, answer)
<1>1. TypeOK /\ Loaded /\ Served /\ todo[c] \in Seq(Steps)
  BY DEF WatchdogInv, TypeOK
<1>2. step \in Named /\ Sound(request) /\ request.step = step
  BY <1>1, HeadRequest, Requested
<1>3. /\ todo' = [todo EXCEPT ![c] = IF ok THEN Tail(@) ELSE <<>>]
      /\ pc' = [pc EXCEPT ![c] = "load"]
      /\ windowStatus' = IF step = "window_read" /\ ok THEN answer.data ELSE 0
      /\ lastQuest' = IF ~ok THEN lastQuest
                      ELSE CASE step = "quest_read" -> answer.data % 16
                             [] step = "resp0" -> Illegal
                             [] OTHER -> lastQuest
  BY DEF Complete
<1> HIDE DEF ok, request
<1>4. answer.data \in 0..255
  BY DEF Frames
<1>5. \/ step = "quest_read" /\ lastQuest' \in 0..15
      \/ step = "resp0" /\ lastQuest' \in 0..Illegal
      \/ lastQuest' = lastQuest
  <2>1. answer.data % 16 \in 0..15
    BY <1>4, Modulo, Zenon
  <2> QED BY <1>3, <2>1 DEF Illegal
<1>6. /\ lastQuest' \in 0..Illegal
      /\ step \notin {"quest_read", "resp0"} \/ ~ok => lastQuest' = lastQuest
      /\ step = "quest_read" /\ lastQuest' # lastQuest => lastQuest' \in 0..15
  <2>1. lastQuest \in 0..Illegal
    BY <1>1 DEF TypeOK
  <2> QED BY <1>3, <1>5, <2>1 DEF Illegal
<1>7. /\ todo' = [todo EXCEPT ![c] = todo'[c]]
      /\ todo'[c] = <<>> \/ (ok /\ todo'[c] = Tail(todo[c]))
      /\ ~ok => todo'[c] = <<>>
      /\ \A x \in Context \ {c} : todo'[x] = todo[x]
      /\ pc'[c] = "load" /\ \A x \in Context \ {c} : pc'[x] = pc[x]
  BY <1>1, <1>3 DEF TypeOK
<1>8. TypeOK'
  <2>1. pc' \in [Context -> {"load", "await", "take"}]
    BY <1>1, <1>3 DEF TypeOK
  <2>2. todo'[c] \in Seq(Steps)
    BY <1>1, <1>7, Shorter, Zenon
  <2>3. todo' \in [Context -> Seq(Steps)]
    BY <1>1, <1>7, <2>2 DEF TypeOK
  <2>4. windowStatus' \in 0..255
    BY <1>3, <1>4
  <2>5. shift' \in Frames \cup {None} /\ txbuf' \in Frames \cup {None}
    BY <1>1 DEF TypeOK
  <2>6. intFlag' \in BOOLEAN
    OBVIOUS
  <2> QED BY <1>1, <1>6, <2>1, <2>3, <2>4, <2>5, <2>6, Zenon DEF TypeOK
<1>9. Loaded'
  BY <1>1 DEF Loaded, Sound
<1>10. ASSUME Serving PROVE Served'
  <2>1. shift' # None => shift'.step \in ServeSteps
    BY <1>10 DEF Serving
  <2>2. txbuf' # None => txbuf'.step \in ServeSteps
    BY <1>10 DEF Serving
  <2>3. todo'["main"] \in Seq({"status"})
    <3>1. CASE c = "main"
      <4>1. /\ todo["main"] # <<>> /\ todo["main"] \in Seq({"status"})
            /\ todo'["main"] = <<>> \/ todo'["main"] = Tail(todo["main"])
        BY <1>7, <1>10, <3>1 DEF Serving
      <4> QED BY <4>1, Shorter
    <3> QED BY <1>7, <1>10, <3>1 DEF Serving
  <2>4. \/ todo'["isr"] \in Seq(Reads)
        \/ /\ lastQuest' \in 0..15
           /\ todo'["isr"] \in Seq(Answers)
           /\ \A i \in 1..Len(todo'["isr"]) : todo'["isr"][i] = "resp0" => i = Len(todo'["isr"])
    <3>1. CASE c = "main"
      <4>1. step = "status"
        BY <1>10, <3>1, HeadTailProperties DEF Serving
      <4>2. lastQuest' = lastQuest /\ todo'["isr"] = todo["isr"]
        BY <1>6, <1>7, <3>1, <4>1
      <4> QED BY <1>10, <4>2, Zenon DEF Serving
    <3>2. CASE c = "isr" /\ todo["isr"] \in Seq(Reads)
      <4>1. /\ todo["isr"] # <<>>
            /\ todo'["isr"] = <<>> \/ todo'["isr"] = Tail(todo["isr"])
        BY <1>7, <3>2
      <4> QED BY <3>2, <4>1, Shorter
    <3>3. CASE c = "isr" /\ lastQuest \in 0..15 /\ todo["isr"] \in Seq(Answers)
               /\ \A i \in 1..Len(todo["isr"]) : todo["isr"][i] = "resp0" => i = Len(todo["isr"])
      <4>1. step \in Answers /\ step = todo["isr"][1] /\ Len(todo["isr"]) \in Nat \ {0}
        BY <3>3, HeadTailProperties
      <4>2. /\ Tail(todo["isr"]) \in Seq(Answers) /\ Len(Tail(todo["isr"])) = Len(todo["isr"]) - 1
            /\ \A i \in 1..Len(Tail(todo["isr"])) : Tail(todo["isr"])[i] = todo["isr"][i + 1]
        BY <3>3, HeadTailProperties
      <4>3. CASE todo'["isr"] = <<>>
        BY <4>3, EmptySeq
      <4>4. CASE todo'["isr"] = Tail(todo["isr"]) /\ step = "resp0"
        <5>1. 1 \in 1..Len(todo["isr"])
          BY <4>1
        <5>2. Len(todo["isr"]) = 1
          BY <3>3, <4>1, <4>4, <5>1, Zenon
        <5>3. Len(Tail(todo["isr"])) = 0
          BY <4>2, <5>2
        <5>4. Tail(todo["isr"]) = <<>>
          BY <4>2, <5>3, EmptySeq
        <5> QED BY <4>4, <5>4, EmptySeq
      <4>5. CASE todo'["isr"] = Tail(todo["isr"]) /\ step # "resp0"
        <5>1. lastQuest' = lastQuest
          BY <1>6, <4>1, <4>5 DEF Answers
        <5>2. ASSUME NEW i \in 1..Len(Tail(todo["isr"])), Tail(todo["isr"])[i] = "resp0"
              PROVE  i = Len(Tail(todo["isr"]))
          <6>1. i + 1 \in 1..Len(todo["isr"]) /\ todo["isr"][i + 1] = "resp0"
            BY <4>1, <4>2, <5>2
          <6>2. i + 1 = Len(todo["isr"])
            BY <3>3, <6>1
          <6> QED BY <4>1, <4>2, <6>2
        <5> QED BY <3>3, <4>2, <4>5, <5>1, <5>2, Zenon
      <4> QED BY <1>7, <3>3, <4>3, <4>4, <4>5
    <3> QED BY <1>10, <3>1, <3>2, <3>3 DEF Serving
  <2>5. dev' = dev
    OBVIOUS
  <2>6. Serving'
    BY <1>10, <2>1, <2>2, <2>3, <2>4, <2>5, Zenon DEF Serving
  <2> QED BY <2>6, Zenon DEF Served
<1>11. ASSUME NEW k \in 1..33, SettingUp(k)
       PROVE  \/ todo'["main"] = <<>> /\ Served'
              \/ k + 1 \in 1..33 /\ Accepted(Request(SetupSteps[k]), answer) /\ SettingUp(k + 1)'
  <2>1. c = "main" /\ todo["isr"] = <<>> /\ shift = None /\ txbuf = None
    BY <1>11 DEF SettingUp, InTransfer
  <2>2. shift' = None /\ txbuf' = None
    BY <2>1
  <2>3. /\ todo["main"] \in Seq(Steps) /\ Len(todo["main"]) = 34 - k
        /\ \A i \in 1..Len(todo["main"]) : todo["main"][i] = SetupSteps[k + i - 1]
    BY <1>1, <1>11, <2>1 DEF SettingUp, AtSetup
  <2>4. step = SetupSteps[k]
    <3>1. 1 \in 1..Len(todo["main"]) /\ k + 1 - 1 = k
      <4>1. k \in Int /\ k <= 33
        OBVIOUS
      <4> QED BY <2>3, <4>1, SetupIndex, Zenon
    <3>2. step = todo["main"][1]
      BY <2>1, <2>3
    <3> QED BY <2>3, <3>1, <3>2, Zenon
  <2>5. dev' = dev /\ dev.written \in Nat
    BY <1>1 DEF TypeOK
  <2>6. CASE todo'["main"] = <<>>
    <3>1. todo'["isr"] = <<>>
      BY <1>7, <2>1
    <3>2. dev'.state # "init" => dev'.written = 14
      BY <1>11, <2>5 DEF SettingUp
    <3>3. <<>> \in Seq(Reads) /\ <<>> \in Seq({"status"})
      BY EmptySeq
    <3>4. Serving'
      BY <2>2, <2>6, <3>1, <3>2, <3>3, Zenon DEF Serving
    <3> QED BY <2>6, <3>4, Zenon DEF Served
  <2>7. CASE ok /\ todo'["main"] = Tail(todo["main"]) /\ Tail(todo["main"]) # <<>>
    <3>1. /\ Tail(todo["main"]) \in Seq(Steps) /\ Len(Tail(todo["main"])) = 33 - k
          /\ \A i \in 1..Len(Tail(todo["main"])) : Tail(todo["main"])[i] = SetupSteps[k + 1 + i - 1]
      <4>1. todo["main"] # <<>>
        BY <2>1
      <4>2. /\ Tail(todo["main"]) \in Seq(Steps) /\ Len(Tail(todo["main"])) = Len(todo["main"]) - 1
            /\ \A i \in 1..Len(Tail(todo["main"])) : Tail(todo["main"])[i] = todo["main"][i + 1]
        BY <2>3, <4>1, HeadTailProperties
      <4>3. ASSUME NEW i \in 1..Len(Tail(todo["main"])) PROVE Tail(todo["main"])[i] = SetupSteps[k + 1 + i - 1]
        <5>1. i + 1 \in 1..Len(todo["main"]) /\ k + (i + 1) - 1 = k + 1 + i - 1
          BY <2>3, <4>2
        <5> QED BY <2>3, <4>2, <5>1
      <4> QED BY <2>3, <4>2, <4>3
    <3>2. k + 1 \in 1..33
      <4>1. Len(Tail(todo["main"])) # 0
        BY <2>7, <3>1, Empty, Zenon
      <4>2. 33 - k # 0
        BY <3>1, <4>1, Zenon
      <4> QED BY <4>2
    <3>3. AtSetup(k + 1)'
      BY <2>7, <3>1 DEF AtSetup
    <3>4. k <= 14 => dev.written = k
      <4>1. SUFFICES ASSUME k <= 14 PROVE dev.written = k
        OBVIOUS
      <4>2. step \in {"unlock", "config", "lock"}
        BY <2>4, <4>1, SetupList
      <4>3. request.op = "write"
        BY <1>2, <4>2 DEF Sound, ReadSteps
      <4>4. answer = request
        BY <2>7, <4>3 DEF ok, Accepted
      <4>5. answer # AllOnes
        BY <4>3, <4>4 DEF AllOnes, Frame
      <4>6. pc["main"] = "take" /\ answer = rxbuf
        BY <2>1, <4>5
      <4>7. intFlag
        BY <1>11, <4>6 DEF SettingUp
      <4>8. request = Request(SetupSteps[k])
        BY <2>4 DEF request
      <4> QED BY <1>11, <4>1, <4>4, <4>6, <4>7, <4>8 DEF SettingUp, InTransfer
    <3>5. pc'["main"] = "load" /\ pc'["isr"] = "load"
      BY <1>7, <1>11, <2>1 DEF SettingUp
    <3>6. InTransfer(k + 1)'
      <4>1. k + 1 <= 14 => dev'.written = (k + 1) - 1
        <5>1. k \in Int /\ k <= 33
          OBVIOUS
        <5>2. (k + 1) - 1 = k /\ (k + 1 <= 14 => k <= 14)
          BY <5>1, SetupIndex, Zenon
        <5>3. dev'.written = dev.written
          BY <2>5
        <5>4. k + 1 <= 14 => dev'.written = k
          BY <3>4, <5>2, <5>3, Zenon
        <5> QED BY <5>2, <5>4
      <4> QED BY <2>2, <3>5, <4>1 DEF InTransfer
    <3>7. k + 1 \in 18..21 => lastQuest' \in 0..15
      <4>1. CASE k = 17
        <5>1. step = "quest_read"
          BY <2>4, <4>1, SetupList
        <5>2. answer.data % 16 \in 0..15
          BY <1>4, Modulo, Zenon
        <5> QED BY <1>3, <2>7, <5>1, <5>2
      <4>2. CASE k \in 18..20
        <5>1. step \notin {"quest_read", "resp0"}
          BY <2>4, <4>2, SetupList
        <5>2. lastQuest' = lastQuest /\ lastQuest \in 0..15
          BY <1>6, <1>11, <4>2, <5>1 DEF SettingUp
        <5> QED BY <5>2
      <4>3. k \in Int
        OBVIOUS
      <4>4. k + 1 \in 18..21 => k = 17 \/ k \in 18..20
        BY <4>3, SetupIndex, Zenon
      <4> QED BY <4>1, <4>2, <4>4, Zenon
    <3>8. todo'["isr"] = <<>> /\ timer' = FALSE /\ masked' = 0
      BY <1>7, <1>11, <2>1 DEF SettingUp
    <3>9. (k + 1 <= 31 => dev'.state = "init") /\ (k + 1 > 14 => dev'.written = 14)
      <4>1. (k + 1 <= 31 => k <= 31) /\ (k + 1 > 14 => k > 14 \/ (k <= 14 /\ k = 14))
        OBVIOUS
      <4>2. (k <= 31 => dev.state = "init") /\ (k > 14 => dev.written = 14)
        BY <1>11 DEF SettingUp
      <4> QED BY <2>5, <3>4, <4>1, <4>2, Zenon
    <3>10. SettingUp(k + 1)'
      BY <2>2, <3>3, <3>5, <3>6, <3>7, <3>8, <3>9 DEF SettingUp
    <3> QED BY <2>4, <2>7, <3>2, <3>10, Zenon DEF ok, request
  <2> QED BY <1>7, <2>1, <2>6, <2>7
<1>12. WatchdogInv'
  BY <1>1, <1>8, <1>9, <1>10, <1>11, Zenon DEF WatchdogInv, Served
<1> QED BY <1>11, <1>12, Zenon

(* An answer taken.                                                        *)
LEMMA TakeKept ==
  ASSUME WatchdogInv, NEW c \in Context, Take(c)
  PROVE  /\ WatchdogInv'
         /\ \A k \in 1..33 : SettingUp(k) =>
                todo'["main"] = <<>> \/ (k + 1 \in 1..33 /\ Accepted(Request(SetupSteps[k]), rxbuf) /\ SettingUp(k + 1)')
<1>1. rxbuf \in Frames /\ todo[c] # <<>>
  BY DEF WatchdogInv, TypeOK, Take, Runs, Busy
<1>2. /\ UNCHANGED <<dev, timer, masked, phase, dumped, faults, overlaps, saves, torn, rxbuf>>
      /\ intFlag' = FALSE /\ shift' = shift /\ txbuf' = txbuf /\ pc[c] = "take" /\ Complete(c, rxbuf)
  BY DEF Take, clock, history
<1> QED BY <1>1, <1>2, CompleteKept, Zenon

(* A wait given up.                                                        *)
LEMMA TimeOutKept ==
  ASSUME WatchdogInv, NEW c \in Context, TimeOut(c)
  PROVE  /\ WatchdogInv'
         /\ \A k \in 1..33 : SettingUp(k) =>
                todo'["main"] = <<>> \/ (k + 1 \in 1..33 /\ Accepted(Request(SetupSteps[k]), AllOnes) /\ SettingUp(k + 1)')
<1>1. AllOnes \in Frames /\ todo[c] # <<>>
  BY DEF AllOnes, Frame, Frames, TimeOut, Runs, Busy
<1>2. /\ UNCHANGED <<dev, timer, masked, phase, dumped, faults, overlaps, saves, torn, rxbuf>>
      /\ intFlag' = FALSE /\ shift' = None /\ txbuf' = None /\ shift = None /\ txbuf = None
      /\ Complete(c, AllOnes)
  BY DEF TimeOut, clock, history
<1> QED BY <1>1, <1>2, CompleteKept, Zenon

\* What the SPI module and the device do between the driver's steps.
(* A frame shifted, whatever becomes of it on the bus.                     *)
LEMMA ShiftedKept ==
  ASSUME WatchdogInv, shift # None, NEW answer \in Frames, UNCHANGED driver,
         dev' = dev \/ dev' \in Process(shift),
         UNCHANGED <<timer, masked, phase, dumped, saves, torn>>,
         faults' \in Nat, overlaps' \in Nat,
         shift' = txbuf, txbuf' = None,
         \/ rxbuf' = answer /\ intFlag' = TRUE
            /\ (shift.op = "write" => answer # shift \/ dev' \in Process(shift))
         \/ UNCHANGED <<rxbuf, intFlag>>
  PROVE  /\ WatchdogInv'
         /\ \A k \in 1..33 : SettingUp(k) => SettingUp(k)'
<1>1. TypeOK /\ Loaded /\ Served /\ Sound(shift) /\ dev \in Device
  BY DEF WatchdogInv, TypeOK, Device, Loaded
<1>2. UNCHANGED <<todo, pc, windowStatus, lastQuest>>
  BY DEF driver
<1>3. /\ dev' \in Device
      /\ shift.step \in Quiet => dev'.written = dev.written /\ (dev'.state = "init" <=> dev.state = "init")
      /\ shift.step = "devctrln" => dev'.written = dev.written
      /\ shift.step \in {"unlock", "config", "lock"} =>
             /\ dev'.state = "init" <=> dev.state = "init"
             /\ dev'.written = dev.written \/ dev'.written = dev.written + 1
             /\ dev' \in Process(shift) => dev'.written = dev.written + 1
  <2>1. CASE dev' = dev /\ dev' \notin Process(shift)
    BY <1>1, <2>1, Zenon
  <2>2. CASE dev' \in Process(shift)
    BY <1>1, <2>2, Processed, Zenon
  <2> QED BY <2>1, <2>2
<1>4. TypeOK'
  <2>1. intFlag' \in BOOLEAN
    <3>1. CASE intFlag' = TRUE
      BY <3>1
    <3>2. CASE intFlag' = intFlag
      BY <1>1, <3>2, Zenon DEF TypeOK
    <3> QED BY <3>1, <3>2, Zenon
  <2>2. shift' \in Frames \cup {None} /\ txbuf' \in Frames \cup {None} /\ rxbuf' \in Frames
    BY <1>1, Zenon DEF TypeOK
  <2> QED BY <1>1, <1>2, <1>3, <2>1, <2>2, Zenon DEF TypeOK, Device
<1>5. Loaded'
  BY <1>1 DEF Loaded, Sound
<1>6. ASSUME Serving PROVE Served'
  <2>1. shift.step \in ServeSteps /\ (txbuf # None => txbuf.step \in ServeSteps)
    BY <1>6 DEF Serving
  <2>2. shift.step \in Quiet
    BY <2>1 DEF ServeSteps, Quiet, Named
  <2>3. dev'.state # "init" => dev'.written = 14
    BY <1>3, <1>6, <2>2, Zenon DEF Serving
  <2>4. Serving'
    BY <1>2, <1>6, <2>1, <2>3, Zenon DEF Serving
  <2> QED BY <2>4, Zenon DEF Served
<1>7. ASSUME NEW k \in 1..33, SettingUp(k) PROVE SettingUp(k)'
  <2> DEFINE request == Request(SetupSteps[k])
  <2>1. /\ pc["main"] = "await" /\ shift = request /\ ~intFlag /\ (k <= 14 => dev.written = k - 1)
        /\ txbuf = None
    BY <1>7 DEF SettingUp, InTransfer
  <2>2. request' = request
    BY <1>2 DEF Request, Frame
  <2>3. shift.step = SetupSteps[k] /\ (k <= 14 => shift.op = "write")
    <3>1. request.step = SetupSteps[k]
      BY DEF Request, Frame
    <3>2. k <= 14 => SetupSteps[k] \notin ReadSteps
      BY SetupList DEF ReadSteps
    <3> QED BY <1>1, <2>1, <3>1, <3>2 DEF Sound
  <2>4. k <= 14 /\ rxbuf' = request /\ intFlag' => dev'.written = k
    <3>1. SUFFICES ASSUME k <= 14, rxbuf' = request, intFlag' PROVE dev'.written = k
      BY Zenon
    <3>2. rxbuf' = answer /\ answer = shift
      BY <2>1, <2>2, <3>1, Zenon
    <3>3. dev' \in Process(shift)
      BY <2>1, <2>3, <3>1, <3>2, Zenon
    <3>4. shift.step \in {"unlock", "config", "lock"}
      BY <2>3, <3>1, SetupList
    <3>5. dev'.written = dev.written + 1
      BY <1>3, <3>3, <3>4, Zenon
    <3> QED BY <2>1, <3>1, <3>5
  <2>5. k <= 31 => dev'.state = "init"
    <3>1. SUFFICES ASSUME k <= 31 PROVE dev'.state = "init"
      OBVIOUS
    <3>2. dev.state = "init"
      BY <1>7, <3>1 DEF SettingUp
    <3>3. shift.step \in Quiet \/ shift.step \in {"unlock", "config", "lock"}
      BY <2>3, <3>1, SetupList DEF Quiet, Named
    <3> QED BY <1>3, <3>2, <3>3, Zenon
  <2>6. k > 14 => dev'.written = 14
    <3>1. SUFFICES ASSUME k > 14 PROVE dev'.written = 14
      OBVIOUS
    <3>2. dev.written = 14
      BY <1>7, <3>1 DEF SettingUp
    <3>3. shift.step \in Quiet \/ shift.step = "devctrln"
      BY <2>3, <3>1, SetupList DEF Quiet, Named
    <3> QED BY <1>3, <3>2, <3>3, Zenon
  <2>7. AtSetup(k)'
    BY <1>2, <1>7 DEF SettingUp, AtSetup
  <2>8. shift' = None /\ txbuf' = None /\ pc'["main"] = "await" /\ pc'["isr"] = "load"
    BY <1>2, <1>7, <2>1 DEF SettingUp
  <2>9. InTransfer(k)'
    BY <2>2, <2>4, <2>8, Zenon DEF InTransfer
  <2>10. todo'["isr"] = <<>> /\ timer' = FALSE /\ masked' = 0 /\ (k \in 18..21 => lastQuest' \in 0..15)
    BY <1>2, <1>7 DEF SettingUp
  <2> QED BY <2>5, <2>6, <2>7, <2>8, <2>9, <2>10, Zenon DEF SettingUp
<1>8. WatchdogInv'
  BY <1>1, <1>4, <1>5, <1>6, <1>7, Zenon DEF WatchdogInv, Served
<1> QED BY <1>7, <1>8, Zenon

(* On a sound bus.                                                         *)
LEMMA ShiftKept ==
  ASSUME WatchdogInv, Shift
  PROVE  /\ WatchdogInv'
         /\ \A k \in 1..33 : SettingUp(k) => SettingUp(k)'
<1>1. TypeOK /\ dev \in Device /\ shift # None /\ Sound(shift)
  BY DEF WatchdogInv, TypeOK, Device, Loaded, Shift
<1>2. PICK answer \in Echo(shift) : Shifted(answer)
  BY DEF Shift
<1>3. answer \in Frames /\ dev' \in Process(shift)
  BY <1>1, <1>2, Echoed DEF Shift
<1>4. /\ UNCHANGED driver /\ UNCHANGED <<timer, masked, phase, dumped, saves, torn>>
      /\ shift' = txbuf /\ txbuf' = None /\ rxbuf' = answer /\ intFlag' = TRUE
  BY <1>2, Zenon DEF Shift, Shifted, clock, history
<1>5. faults' \in Nat /\ overlaps' \in Nat
  BY <1>1 DEF Shift, history, TypeOK
<1> QED BY <1>1, <1>3, <1>4, <1>5, ShiftedKept, Zenon

(* On a disturbed one.                                                     *)
LEMMA DisturbKept ==
  ASSUME WatchdogInv, Disturb
  PROVE  /\ WatchdogInv'
         /\ \A k \in 1..33 : SettingUp(k) => SettingUp(k)'
<1>1. TypeOK /\ dev \in Device /\ shift # None /\ Sound(shift)
  BY DEF WatchdogInv, TypeOK, Device, Loaded, Disturb
<1>2. UNCHANGED driver /\ UNCHANGED <<timer, masked, phase, dumped, saves, torn>>
  BY Zenon DEF Disturb, clock
<1>3. faults' \in Nat /\ overlaps' \in Nat
  BY <1>1 DEF Disturb, TypeOK
<1> DEFINE garbled == [shift EXCEPT !.op = "garbled"]
<1>4. garbled \in Frames /\ garbled # shift
  BY <1>1 DEF Sound, Frames
<1>5. CASE Shifted(garbled) /\ (dev' = dev \/ dev' \in Process(shift))
  <2>1. shift' = txbuf /\ txbuf' = None /\ rxbuf' = garbled /\ intFlag' = TRUE
    BY <1>5, Zenon DEF Shifted
  <2> HIDE DEF garbled
  <2> QED BY <1>1, <1>2, <1>3, <1>4, <1>5, <2>1, ShiftedKept, Zenon
<1>6. CASE shift' = txbuf /\ txbuf' = None /\ UNCHANGED <<rxbuf, intFlag, dev>>
  <2>1. dev' = dev /\ UNCHANGED <<rxbuf, intFlag>>
    BY <1>6, Zenon
  <2> HIDE DEF garbled
  <2> QED BY <1>1, <1>2, <1>3, <1>4, <1>6, <2>1, ShiftedKept, Zenon
<1> QED BY <1>5, <1>6, Zenon DEF Disturb

\* In set-up the main loop is busy and no timer has fired.
(* Set-up is over when the timer runs or main does something else.         *)
LEMMA NotSettingUp ==
  ASSUME TypeOK, Served, timer \/ masked # 0 \/ ~Busy("main")
  PROVE  Serving
<1> SUFFICES ASSUME NEW k \in 1..33, SettingUp(k) PROVE FALSE
  BY Zenon DEF Served
<1>1. timer = FALSE /\ masked = 0 /\ Len(todo["main"]) = 34 - k
  BY DEF SettingUp, AtSetup
<1>2. todo["main"] = <<>>
  BY <1>1, Zenon DEF Busy
<1> QED BY <1>1, <1>2, EmptySeq

(* What the interrupt asks.                                                *)
LEMMA StrobeSteps ==
  /\ StrobeReadSteps \in Seq(Reads) /\ StrobeReadSteps \in Seq(Steps)
  /\ StrobeAnswerSteps \in Seq(Answers) /\ StrobeAnswerSteps \in Seq(Steps)
  /\ \A i \in 1..Len(StrobeAnswerSteps) : StrobeAnswerSteps[i] = "resp0" => i = Len(StrobeAnswerSteps)
<1>1. /\ "window_read" \in Steps /\ "window_write" \in Steps /\ "quest_read" \in Steps
      /\ "resp3" \in Steps /\ "resp2" \in Steps /\ "resp1" \in Steps /\ "resp0" \in Steps
  BY Names DEF Named
<1>2. StrobeReadSteps \in Seq(Reads) /\ StrobeReadSteps \in Seq(Steps)
  BY <1>1 DEF StrobeReadSteps, Reads
<1> DEFINE front == <<"window_read", "window_write">>
<1>3. /\ front \in Seq(Answers) /\ AnswerSteps \in Seq(Answers)
      /\ front \in Seq(Steps) /\ AnswerSteps \in Seq(Steps)
      /\ Len(front) = 2 /\ Len(AnswerSteps) = 4
      /\ front[1] = "window_read" /\ front[2] = "window_write"
      /\ AnswerSteps[1] = "resp3" /\ AnswerSteps[2] = "resp2" /\ AnswerSteps[3] = "resp1"
  BY <1>1 DEF AnswerSteps, Answers
<1>4. StrobeAnswerSteps = front \o AnswerSteps
  BY DEF StrobeAnswerSteps
<1> HIDE DEF front
<1>5. /\ StrobeAnswerSteps \in Seq(Answers) /\ StrobeAnswerSteps \in Seq(Steps)
      /\ Len(StrobeAnswerSteps) = Len(front) + Len(AnswerSteps)
      /\ \A i \in Int : 1 <= i /\ i <= Len(front) => StrobeAnswerSteps[i] = front[i]
      /\ \A i \in Int : Len(front) < i /\ i <= Len(front) + Len(AnswerSteps) =>
             StrobeAnswerSteps[i] = AnswerSteps[i - Len(front)]
  BY <1>3, <1>4, Joined, Zenon
<1> HIDE DEF StrobeAnswerSteps
<1>6. ASSUME NEW i \in 1..Len(StrobeAnswerSteps), StrobeAnswerSteps[i] = "resp0"
      PROVE  i = Len(StrobeAnswerSteps)
  <2>1. i \in Int /\ 1 <= i /\ i <= 6 /\ Len(StrobeAnswerSteps) = 6
    BY <1>3, <1>5
  <2>2. ASSUME i <= 2 PROVE FALSE
    <3>1. StrobeAnswerSteps[i] = front[i]
      BY <1>3, <1>5, <2>1, <2>2, Zenon
    <3>2. i = 1 \/ i = 2
      BY <2>1, <2>2
    <3> QED BY <1>3, <1>6, <3>1, <3>2, Zenon
  <2>3. ASSUME 2 < i, i < 6 PROVE FALSE
    <3>1. StrobeAnswerSteps[i] = AnswerSteps[i - 2]
      BY <1>3, <1>5, <2>1, <2>3
    <3>2. i - 2 = 1 \/ i - 2 = 2 \/ i - 2 = 3
      BY <2>1, <2>3
    <3> QED BY <1>3, <1>6, <3>1, <3>2, Zenon
  <2> QED BY <2>1, <2>2, <2>3
<1> QED BY <1>2, <1>5, <1>6

(* The timer interrupt begins.                                             *)
LEMMA StrobeKept == ASSUME WatchdogInv, Strobe PROVE WatchdogInv'
<1>1. TypeOK /\ Loaded /\ Serving
  BY NotSettingUp, Zenon DEF WatchdogInv, Strobe
<1>2. /\ UNCHANGED <<pc, windowStatus, lastQuest, shift, txbuf>>
      /\ UNCHANGED <<rxbuf, intFlag, dev, phase, masked>>
      /\ UNCHANGED <<dumped, faults, saves>>
      /\ timer' = FALSE
  BY Zenon DEF Strobe, spi
<1>3. torn' \in BOOLEAN
  <2>1. PICK t : torn' = (torn \/ t)
    BY Zenon DEF Strobe
  <2> QED BY <2>1
<1>4. overlaps' \in Nat
  <2>1. overlaps' = overlaps + 1 \/ overlaps' = overlaps
    BY Zenon DEF Strobe
  <2>2. overlaps \in Nat
    BY <1>1 DEF TypeOK
  <2> QED BY <2>1, <2>2
<1>5. /\ todo' \in [Context -> Seq(Steps)] /\ todo'["main"] = todo["main"]
      /\ \/ todo'["isr"] = StrobeReadSteps
         \/ lastQuest # Illegal /\ todo'["isr"] = StrobeAnswerSteps
  <2>1. todo \in [Context -> Seq(Steps)]
    BY <1>1 DEF TypeOK
  <2>2. PICK steps : /\ todo' = [todo EXCEPT !["isr"] = steps]
                     /\ \/ steps = StrobeReadSteps
                        \/ lastQuest # Illegal /\ steps = StrobeAnswerSteps
    BY DEF Strobe
  <2>3. steps \in Seq(Steps)
    BY <2>2, StrobeSteps, Zenon
  <2> HIDE DEF Steps
  <2> QED BY <2>1, <2>2, <2>3, Zenon
<1>6. TypeOK'
  <2>1. shift' \in Frames \cup {None} /\ txbuf' \in Frames \cup {None}
    BY <1>1, <1>2, Zenon DEF TypeOK
  <2>2. timer' \in BOOLEAN
    BY <1>2
  <2> QED BY <1>1, <1>2, <1>3, <1>4, <1>5, <2>1, <2>2, Zenon DEF TypeOK
<1>7. Loaded'
  BY <1>1, <1>2 DEF Loaded, Sound
<1>8. Serving'
  <2>1. lastQuest # Illegal => lastQuest' \in 0..15
    BY <1>1, <1>2 DEF TypeOK, Illegal
  <2>2. \/ todo'["isr"] \in Seq(Reads)
        \/ /\ lastQuest' \in 0..15
           /\ todo'["isr"] \in Seq(Answers)
           /\ \A i \in 1..Len(todo'["isr"]) : todo'["isr"][i] = "resp0" => i = Len(todo'["isr"])
    BY <1>5, <2>1, StrobeSteps, Zenon
  <2> QED BY <1>1, <1>2, <1>5, <2>2, Zenon DEF Serving
<1> QED BY <1>6, <1>7, <1>8, Zenon DEF WatchdogInv, Served

(* The log dump begins.                                                    *)
LEMMA ReadStatusKept == ASSUME WatchdogInv, ReadStatusRegisters PROVE WatchdogInv'
<1>1. TypeOK /\ Loaded /\ Serving
  BY NotSettingUp, Zenon DEF WatchdogInv, ReadStatusRegisters, Idle
<1>2. /\ UNCHANGED <<pc, windowStatus, lastQuest, shift, txbuf>>
      /\ UNCHANGED <<rxbuf, intFlag, dev, phase, timer>>
      /\ UNCHANGED <<masked, faults, overlaps, saves, torn>>
      /\ dumped' = TRUE
  BY Zenon DEF ReadStatusRegisters, spi, history
<1>3. StatusSteps \in Seq(Steps) /\ StatusSteps \in Seq({"status"})
  <2>1. StatusReads \in Nat
    BY PmicAssumption
  <2>2. "status" \in Steps /\ "status" \in {"status"}
    BY Names DEF Named
  <2> QED BY <2>1, <2>2, TimesSeq, Zenon DEF StatusSteps
<1>4. /\ todo' \in [Context -> Seq(Steps)]
      /\ todo'["main"] = StatusSteps /\ todo'["isr"] = todo["isr"]
  <2>1. todo \in [Context -> Seq(Steps)]
    BY <1>1 DEF TypeOK
  <2>2. todo' = [todo EXCEPT !["main"] = StatusSteps]
    BY DEF ReadStatusRegisters
  <2> QED BY <1>3, <2>1, <2>2, Zenon
<1>5. TypeOK'
  <2>1. shift' \in Frames \cup {None} /\ txbuf' \in Frames \cup {None}
    BY <1>1, <1>2, Zenon DEF TypeOK
  <2>2. dumped' \in BOOLEAN
    BY <1>2
  <2> QED BY <1>1, <1>2, <1>4, <2>1, <2>2, Zenon DEF TypeOK
<1>6. Loaded'
  BY <1>1, <1>2 DEF Loaded, Sound
<1>7. Serving'
  BY <1>1, <1>2, <1>3, <1>4, Zenon DEF Serving
<1> QED BY <1>5, <1>6, <1>7, Zenon DEF WatchdogInv, Served

(* Interrupts masked by a save.                                            *)
LEMMA SaveKept == ASSUME WatchdogInv, Save PROVE WatchdogInv'
<1>1. TypeOK /\ Loaded /\ Serving
  BY NotSettingUp, Zenon DEF WatchdogInv, Save, Idle
<1>2. /\ UNCHANGED <<todo, pc, windowStatus, lastQuest, shift, txbuf>>
      /\ UNCHANGED <<rxbuf, intFlag, dev, phase, timer>>
      /\ UNCHANGED <<dumped, faults, overlaps, torn>>
  BY Zenon DEF Save, spi, driver
<1>3. masked' \in 0..SaveUnits /\ saves' \in 0..MaxSaves
  <2>1. saves \in 0..MaxSaves /\ SaveUnits \in Nat /\ MaxSaves \in Nat
    BY <1>1, PmicAssumption DEF TypeOK
  <2>2. masked' = SaveUnits /\ saves' = saves + 1 /\ saves < MaxSaves
    BY DEF Save
  <2> QED BY <2>1, <2>2
<1>4. TypeOK'
  <2>1. shift' \in Frames \cup {None} /\ txbuf' \in Frames \cup {None}
    BY <1>1, <1>2, Zenon DEF TypeOK
  <2> QED BY <1>1, <1>2, <1>3, <2>1, Zenon DEF TypeOK
<1>5. Loaded'
  BY <1>1, <1>2 DEF Loaded, Sound
<1>6. Serving'
  BY <1>1, <1>2, Zenon DEF Serving
<1> QED BY <1>4, <1>5, <1>6, Zenon DEF WatchdogInv, Served

\* What 50 ms do to the device.
(* Time passing for the device.                                            *)
LEMMA AgedDevice ==
  ASSUME NEW d \in Device, NEW age \in 0..2, NEW w \in Nat, NEW beat \in 0..4, NEW f \in Nat
  PROVE  Same([d EXCEPT !.age = age, !.windowErrors = w, !.beat = beat, !.functionalErrors = f], d)
<1> DEFINE d1 == [d EXCEPT !.age = age]
           d2 == [d1 EXCEPT !.windowErrors = w]
           d3 == [d2 EXCEPT !.beat = beat]
           d4 == [d3 EXCEPT !.functionalErrors = f]
<1>1. Same(d1, d)
  BY Fields, Zenon
<1> HIDE DEF d1
<1>2. Same(d2, d1)
  BY <1>1, Fields, Zenon DEF Same
<1> HIDE DEF d2
<1>3. Same(d3, d2)
  BY <1>2, Fields, Zenon DEF Same
<1> HIDE DEF d3
<1>4. Same(d4, d3)
  BY <1>3, Fields, Zenon DEF Same
<1>5. Same(d4, d)
  <2> HIDE DEF d4
  <2> QED BY <1>1, <1>2, <1>3, <1>4, Zenon DEF Same
<1> QED BY <1>5, Zenon DEF d1, d2, d3, d4

(* Time passes.                                                            *)
LEMMA TickKept == ASSUME WatchdogInv, Tick PROVE WatchdogInv'
<1>1. TypeOK /\ Loaded /\ Serving /\ dev \in Device
  BY NotSettingUp, Zenon DEF WatchdogInv, Tick, TypeOK, Device
<1>2. /\ UNCHANGED <<todo, pc, windowStatus, lastQuest, shift, txbuf>>
      /\ UNCHANGED <<rxbuf, intFlag, faults, overlaps, saves, torn>>
      /\ dumped' = FALSE
  BY Zenon DEF Tick, spi, driver, history
<1>3. timer' \in BOOLEAN
  <2>1. PICK t : timer' = (timer \/ t)
    BY Zenon DEF Tick
  <2> QED BY <2>1
<1>4. phase' \in {0, 1} /\ masked' \in 0..SaveUnits
  <2>1. phase \in {0, 1} /\ masked \in 0..SaveUnits /\ SaveUnits \in Nat
    BY <1>1, PmicAssumption DEF TypeOK
  <2>2. phase' = 1 - phase /\ masked' = (IF masked = 0 THEN 0 ELSE masked - 1)
    BY DEF Tick
  <2> QED BY <2>1, <2>2
<1>5. dev' \in Device /\ dev'.written = dev.written /\ (dev'.state = "init" => dev.state = "init")
      /\ (dev.state = "init" => dev'.state = "init")
  <2>1. PICK age, w, beat, f :
           /\ age = (IF dev.age = 2 THEN 0 ELSE dev.age + 1)
           /\ w = (IF dev.age = 2 THEN Fail(dev.windowErrors) ELSE dev.windowErrors)
           /\ beat = (IF dev.beat = 4 THEN 0 ELSE dev.beat + 1)
           /\ f = (IF dev.beat = 4 THEN Fail(dev.functionalErrors) ELSE dev.functionalErrors)
           /\ dev' = Judge([dev EXCEPT !.age = age, !.windowErrors = w, !.beat = beat,
                                       !.functionalErrors = f])
    BY Zenon DEF Tick
  <2>2. dev.age \in 0..2 /\ dev.windowErrors \in Nat /\ dev.beat \in 0..4 /\ dev.functionalErrors \in Nat
    BY <1>1 DEF Device
  <2>3. age \in 0..2 /\ beat \in 0..4
    BY <2>1, <2>2
  <2>4. w \in Nat /\ f \in Nat
    BY <2>1, <2>2, Counted, Zenon
  <2>5. Same([dev EXCEPT !.age = age, !.windowErrors = w, !.beat = beat, !.functionalErrors = f], dev)
    BY <1>1, <2>3, <2>4, AgedDevice, Zenon
  <2> DEFINE x == [dev EXCEPT !.age = age, !.windowErrors = w, !.beat = beat, !.functionalErrors = f]
  <2>6. Same(x, dev) /\ dev' = Judge(x)
    BY <2>1, <2>5, Zenon
  <2> HIDE DEF x
  <2>7. /\ Judge(x) \in Device /\ Judge(x).written = x.written
        /\ Judge(x).state = x.state \/ (x.state = "normal" /\ Judge(x).state = "failed")
    BY <2>6, Judged, Zenon DEF Same
  <2> QED BY <2>6, <2>7 DEF Same
<1>6. TypeOK'
  <2>1. shift' \in Frames \cup {None} /\ txbuf' \in Frames \cup {None}
    BY <1>1, <1>2, Zenon DEF TypeOK
  <2>2. dumped' \in BOOLEAN
    BY <1>2
  <2> QED BY <1>1, <1>2, <1>3, <1>4, <1>5, <2>1, <2>2, Zenon DEF TypeOK, Device
<1>7. Loaded'
  BY <1>1, <1>2 DEF Loaded, Sound
<1>8. Serving'
  <2>1. dev'.state # "init" => dev'.written = 14
    BY <1>1, <1>5, Zenon DEF Serving
  <2> QED BY <1>1, <1>2, <2>1, Zenon DEF Serving
<1> QED BY <1>6, <1>7, <1>8, Zenon DEF WatchdogInv, Served

(* Nothing happens.                                                        *)
LEMMA StutterKept ==
  ASSUME WatchdogInv, UNCHANGED vars
  PROVE  /\ WatchdogInv'
         /\ \A k \in 1..33 : SettingUp(k) => SettingUp(k)'
<1>1. /\ UNCHANGED <<todo, pc, windowStatus, lastQuest, shift, txbuf>>
      /\ UNCHANGED <<rxbuf, intFlag, dev, phase, timer>>
      /\ UNCHANGED <<masked, dumped, faults, overlaps, saves, torn>>
  BY Zenon DEF vars, spi, driver, clock, history
<1>2. TypeOK'
  <2>1. shift' \in Frames \cup {None} /\ txbuf' \in Frames \cup {None}
    BY <1>1, Zenon DEF WatchdogInv, TypeOK
  <2> QED BY <1>1, <2>1, Zenon DEF WatchdogInv, TypeOK
<1>3. Loaded'
  BY <1>1 DEF WatchdogInv, Loaded, Sound
<1>4. Serving => Serving'
  BY <1>1, Zenon DEF Serving
<1>5. ASSUME NEW k \in 1..33, SettingUp(k) PROVE SettingUp(k)'
  <2>1. Request(SetupSteps[k])' = Request(SetupSteps[k])
    BY <1>1 DEF Request, Frame
  <2>2. AtSetup(k)' /\ InTransfer(k)'
    BY <1>1, <1>5, <2>1, Zenon DEF SettingUp, AtSetup, InTransfer
  <2> QED BY <1>1, <1>5, <2>2, Zenon DEF SettingUp
<1>6. WatchdogInv'
  BY <1>2, <1>3, <1>4, <1>5, Zenon DEF WatchdogInv, Served
<1> QED BY <1>5, <1>6, Zenon

(* Every step keeps the invariant.                                         *)
LEMMA AllKept == WatchdogInv /\ [Next]_vars => WatchdogInv'
<1> SUFFICES ASSUME WatchdogInv, [Next]_vars PROVE WatchdogInv'
  OBVIOUS
<1>1. CASE Next
  BY <1>1, LoadKept, SeeFlagKept, TakeKept, TimeOutKept, ShiftKept, DisturbKept, StrobeKept,
     ReadStatusKept, SaveKept, TickKept, Zenon DEF Next, TransferData
<1> QED BY <1>1, StutterKept, Zenon

(* Every access asks for a register of the list, every frame in the SPI    *)
(* module is a frame, and the counters of the device stay in their ranges. *)
THEOREM WatchdogTyped == Spec => []TypeOK
<1>1. WatchdogInv => TypeOK
  BY DEF WatchdogInv
<1> QED BY <1>1, AtFirst, AllKept, PTL DEF Spec

(* The device leaves its initial state only when all fourteen protected    *)
(* accesses of set-up have reached it, whatever the bus garbles or loses:  *)
(* a write that is not echoed ends set-up (pmicdriver.h:309-370).          *)
THEOREM SetUpWhole == Spec => []NormalMeansConfigured
<1>1. WatchdogInv => NormalMeansConfigured
  <2>1. ASSUME NEW k \in 1..33, SettingUp(k) PROVE NormalMeansConfigured
    <3>1. k <= 31 \/ k > 14
      OBVIOUS
    <3> QED BY <2>1, <3>1, Zenon DEF SettingUp, NormalMeansConfigured
  <2> QED BY <2>1, Zenon DEF WatchdogInv, Served, Serving, NormalMeansConfigured
<1> QED BY <1>1, AtFirst, AllKept, PTL DEF Spec

-------------------------------------------------------------------------------
(* How many errors the watchdogs may still count.                          *)
(*                                                                         *)
(* WindowDue and QuestDue are the errors the device would still count if   *)
(* no other disturbance came: of the window watchdog from whether a        *)
(* trigger is on its way, the age of its window and the phase of the       *)
(* timer; of the functional watchdog from how far the driver and the       *)
(* device are from a right answer, the beat and the phase.  They cover the *)
(* time the interrupts are still off as well.  What was counted and what   *)
(* is due stay within a budget that each disturbance adds 4 and 8 to, and  *)
(* each save what it may cost: no step of the driver or of the clock adds  *)
(* to their sum, and while they fit the budgets the thresholds are never   *)
(* exceeded.                                                               *)

\* The access the interrupt is at.
Access == IF todo["isr"] = <<>> THEN "none" ELSE Head(todo["isr"])
Answering == Access \in Responses

Asks == {<<"window_read", "window_write", "quest_read">>, <<"window_write", "quest_read">>, <<"quest_read">>}
Replies == {<<"window_read", "window_write", "resp3", "resp2", "resp1", "resp0">>,
            <<"window_write", "resp3", "resp2", "resp1", "resp0">>,
            <<"resp3", "resp2", "resp1", "resp0">>, <<"resp2", "resp1", "resp0">>,
            <<"resp1", "resp0">>, <<"resp0">>}

\* What the interrupt and the main loop have still to do.
Queued ==
    /\ todo["isr"] \in {<<>>} \cup Asks \cup Replies
    /\ todo["isr"] \in Asks => lastQuest = Illegal
    /\ todo["isr"] \in Replies => lastQuest # Illegal
    /\ todo["isr"] # <<>> => timer = FALSE /\ masked = 0
    /\ masked # 0 => todo["main"] = <<>>
    /\ todo["main"] # <<>> =>
           /\ Tail(todo["main"]) \in Seq({"status", "devstat"})
           /\ pc["main"] = "load" => Head(todo["main"]) \in {"status", "devstat"}

\* The transfer of the interrupt has the SPI module for itself ...
Vacant == shift = None /\ txbuf = None
Fitting ==
    /\ Access = "window_read" => rxbuf.op = "read" /\ rxbuf.data = 128 * dev.trigger
    /\ Access = "quest_read" => rxbuf.op = "read" /\ rxbuf.data = dev.quest
    /\ Access \notin ReadSteps => rxbuf = Request(Access)
Unloaded == pc["isr"] = "load" /\ Vacant /\ ~intFlag
Underway == pc["isr"] = "await" /\ shift = Request(Access) /\ txbuf = None /\ ~intFlag
Through == pc["isr"] # "load" /\ Vacant /\ intFlag /\ Fitting
InStep == Unloaded \/ Underway \/ Through
\* ... or had, until the bus garbled or lost its frame.
Astray == pc["isr"] # "load" /\ Vacant /\ (intFlag => rxbuf.op = "garbled")

ReadsOnly ==
    /\ shift # None => shift.op = "read"
    /\ txbuf # None => txbuf.op = "read"
    /\ intFlag => rxbuf.op # "write"
BeforeWrite == Access = "window_read" \/ (Access = "window_write" /\ pc["isr"] = "load")

\* Where a write may be.
Traffic ==
    /\ timer = TRUE \/ BeforeWrite => ReadsOnly
    /\ txbuf # None => shift # None /\ shift.op = "read"
    /\ intFlag /\ rxbuf.op = "write" => Vacant
    /\ Access = "quest_read" \/ Answering => InStep \/ Astray
    /\ shift # None /\ shift.op = "write" => shift.step = "window_write" \/ Answering
    /\ txbuf # None /\ txbuf.op = "write" => txbuf.step = "window_write"

\* The next strobe comes before another timer interrupt is lost.
Coming == todo["isr"] = <<>> /\ (timer = TRUE \/ phase + masked >= 2)

\* A trigger is sure to come, may come, or is not to be expected.
Sure ==
    \/ Coming
    \/ Access = "window_read" /\ InStep
    \/ Access = "window_write" /\ Unloaded /\ windowStatus = 128 * dev.trigger
    \/ shift # None /\ shift.step = "window_write" /\ shift.data # dev.trigger
Perhaps ==
    \/ BeforeWrite
    \/ shift # None /\ shift.step = "window_write"
    \/ txbuf # None /\ txbuf.step = "window_write"
Trigger == IF Sure THEN "sure" ELSE IF Perhaps THEN "perhaps" ELSE "no"

\* Errors of the window watchdog to come, from the age of its window and the phase.
WindowTable(trigger, age, ph) ==
    CASE trigger = "sure" -> (IF age = 2 THEN 0 ELSE 2) + 2 * ph
      [] trigger = "perhaps" -> IF age = 0 /\ ph = 0 THEN 2 ELSE 4
      [] trigger = "no" -> IF age = 0 THEN 2 * ph ELSE IF age = 1 THEN 4 - 4 * ph ELSE 4
WindowDue(trigger, n, p) == 2 * (n \div 3) + WindowTable(trigger, n % 3, p % 2)

\* How well the device and the driver agree on the quest, after a transfer.
Class ==
    IF lastQuest = Illegal THEN "ask"
    ELSE IF lastQuest = dev.quest /\ dev.count = 1 /\ dev.right = TRUE THEN "good" ELSE "bad"
WellServed == CASE Class = "good" -> 0 [] Class = "ask" -> 1 [] Class = "bad" -> 5
IllServed == CASE Class = "good" -> 1 [] Class = "ask" -> 2 [] Class = "bad" -> 6

\* The byte the device is to get next.
Byte == ResponseIndex[Access] + IF Through THEN 1 ELSE 0
Fair == dev.count = Byte /\ dev.right = TRUE /\ dev.quest = lastQuest
Unfair == IF Byte = 5 THEN 2 ELSE IF dev.count > Byte THEN 4 ELSE 3

\* Levels of trouble: from 0, an answer that will be right, to 6, a quest that is wrong.
Trouble ==
    IF todo["isr"] = <<>> THEN IF Coming THEN WellServed ELSE IllServed
    ELSE IF Access = "quest_read" THEN IF InStep THEN 1 ELSE 6
    ELSE IF Answering THEN IF InStep THEN IF Fair THEN 0 ELSE Unfair ELSE IllServed
    ELSE IF InStep THEN WellServed ELSE IllServed

IdleTable(beat, ph) == IF beat >= 2 \/ (beat = 1 /\ ph = 0) THEN 2 ELSE 0
QuestTable(level, beat, ph) ==
    CASE level = 0 -> 0
      [] level = 1 -> IF beat - ph >= 3 THEN 2 ELSE 0
      [] level = 2 -> IdleTable(beat, ph)
      [] level = 3 -> IdleTable(beat, ph) + 2
      [] level = 4 -> IdleTable(beat, ph) + 4
      [] level = 5 -> IF beat - ph >= 1 THEN 6 ELSE 4
      [] level = 6 -> IF beat = 4 /\ ph = 0 THEN 8 ELSE 6
QuestDue(level, n, p) == 2 * (n \div 5) + QuestTable(level, n % 5, p % 2)

\* What a save may cost.
WindowCost == 2 * (SaveUnits \div 3) + IF SaveUnits % 6 = 4 THEN 4 ELSE 6
QuestCost == 2 * (SaveUnits \div 5) + 2
WindowBudget == 4 * (faults + overlaps) + saves * WindowCost
QuestBudget == 8 * (faults + overlaps) + saves * QuestCost

\* The device is at the first byte when the driver has a quest to ask for.
Synchronous ==
    (lastQuest = Illegal /\ ~Answering) \/ (Access = "resp0" /\ Through) => dev.count = 1 /\ dev.right = TRUE
WindowBounded == dev.windowErrors + WindowDue(Trigger, dev.age + masked, phase + masked) <= WindowBudget
QuestBounded == dev.functionalErrors + QuestDue(Trouble, dev.beat + masked, phase + masked) <= QuestBudget

Running ==
    /\ dev.state = "normal"
    /\ faults + overlaps <= MaxDisturbed
    /\ Queued /\ Traffic /\ Synchronous
    /\ WindowBounded /\ QuestBounded

\* Set-up has been given up.
Dead == dev.state = "init" /\ todo["main"] = <<>> /\ todo["isr"] = <<>> /\ timer = FALSE /\ Vacant

\* What the device has been told of its first quest at the k-th access.
Told(k) == pc["main"] # "load" /\ shift = None /\ intFlag /\ rxbuf = Request(SetupSteps[k])
Untold == pc["main"] = "load" \/ shift # None
FirstQuest(k) ==
    /\ k <= 17 \/ k > 21 => dev.count = 1 /\ dev.right = TRUE /\ lastQuest = Illegal
    /\ k <= 17 => dev.functionalErrors = 0
    /\ k = 17 /\ faults = 0 /\ pc["main"] # "load" /\ shift = None =>
           intFlag /\ rxbuf.op = "read" /\ rxbuf.data = dev.quest
    /\ k \in 18..21 =>
           /\ Untold =>
                  /\ dev.count = k - 17 /\ dev.functionalErrors = 0
                  /\ faults = 0 => dev.right = TRUE /\ dev.quest = lastQuest
           /\ Told(k) /\ k <= 20 =>
                  /\ dev.count = k - 16 /\ dev.functionalErrors = 0
                  /\ faults = 0 => dev.right = TRUE /\ dev.quest = lastQuest
           /\ Told(k) /\ k = 21 => dev.count = 1 /\ dev.right = TRUE
    /\ k > 21 \/ (k = 21 /\ Told(k)) =>
           dev.functionalErrors <= 2 /\ (faults = 0 => dev.functionalErrors = 0)

Opening(k) ==
    /\ SettingUp(k) /\ dev.state = "init"
    /\ dev.windowErrors = 0 /\ dev.age = 0 /\ dev.beat = 0 /\ phase = 0
    /\ faults + overlaps <= MaxDisturbed
    /\ FirstQuest(k)

Bounded == Dead \/ Running \/ \E k \in 1..33 : Opening(k)
BInv == ~torn => Bounded

\* The kinds of triggers and the levels of trouble.
Triggers == {"sure", "perhaps", "no"}
Levels == 0..6

(* The tables, by the place in the window and the phase.                   *)
LEMMA WindowTables ==
  \A trigger \in Triggers, age \in 0..2, ph \in {0, 1} :
      /\ WindowTable(trigger, age, ph) \in 0..4
      /\ WindowTable(trigger, age, ph) <= WindowTable("perhaps", age, ph)
BY DEF WindowTable, Triggers

(* A window more costs two errors, two phases nothing.                     *)
LEMMA WindowDues ==
  ASSUME NEW trigger \in Triggers, NEW n \in Nat, NEW p \in Nat
  PROVE  /\ WindowDue(trigger, n, p) \in Nat
         /\ WindowDue(trigger, n, p) <= WindowDue("perhaps", n, p)
         /\ WindowDue(trigger, n + 3, p) = WindowDue(trigger, n, p) + 2
         /\ WindowDue(trigger, n, p + 2) = WindowDue(trigger, n, p)
<1>1. n % 3 \in 0..2 /\ n \div 3 \in Nat /\ (n + 3) % 3 = n % 3 /\ (n + 3) \div 3 = n \div 3 + 1
  OBVIOUS
<1>2. p % 2 \in {0, 1} /\ (p + 2) % 2 = p % 2
  OBVIOUS
<1>3. "perhaps" \in Triggers
  BY DEF Triggers
<1>4. /\ WindowTable(trigger, n % 3, p % 2) \in 0..4
      /\ WindowTable("perhaps", n % 3, p % 2) \in 0..4
      /\ WindowTable(trigger, n % 3, p % 2) <= WindowTable("perhaps", n % 3, p % 2)
  BY <1>1, <1>2, <1>3, WindowTables, Zenon
<1> QED BY <1>1, <1>2, <1>4 DEF WindowDue

(* Within one window the table says all.                                   *)
LEMMA WindowNow ==
  ASSUME NEW trigger \in Triggers, NEW age \in 0..2, NEW ph \in {0, 1}
  PROVE  WindowDue(trigger, age, ph) = WindowTable(trigger, age, ph)
<1>1. age % 3 = age /\ age \div 3 = 0 /\ ph % 2 = ph
  OBVIOUS
<1>2. WindowTable(trigger, age, ph) \in 0..4
  BY WindowTables
<1> QED BY <1>1, <1>2 DEF WindowDue

(* What a time with the interrupts off may cost the window watchdog.       *)
LEMMA WindowSave ==
  ASSUME NEW age \in 0..2, NEW ph \in {0, 1}, NEW s \in Nat
  PROVE  LET cost == 2 * (s \div 3) + IF s % 6 = 4 THEN 4 ELSE 6
         IN  /\ WindowDue("sure", age + s, ph + s) <= WindowDue("sure", age, ph) + cost
             /\ ph + s >= 2 => WindowDue("sure", age + s, ph + s) <= WindowDue("no", age, ph) + cost
             /\ ph + s < 2 => WindowDue("no", age + s, ph + s) <= WindowDue("no", age, ph) + cost
<1> DEFINE q == s \div 6
           r == s % 6
<1>1. q \in Nat /\ r \in 0..5 /\ s = 6 * q + r
  OBVIOUS
<1> HIDE DEF q, r
<1>2. /\ s \div 3 = 2 * q + r \div 3 /\ s % 6 = r
      /\ (age + s) \div 3 = 2 * q + (age + r) \div 3 /\ (age + s) % 3 = (age + r) % 3
      /\ (ph + s) % 2 = (ph + r) % 2
  BY <1>1
<1>3. /\ r < 3 => r \div 3 = 0
      /\ r >= 3 => r \div 3 = 1
      /\ age + r < 3 => (age + r) \div 3 = 0 /\ (age + r) % 3 = age + r
      /\ age + r >= 3 /\ age + r < 6 => (age + r) \div 3 = 1 /\ (age + r) % 3 = age + r - 3
      /\ age + r >= 6 => (age + r) \div 3 = 2 /\ (age + r) % 3 = age + r - 6
  BY <1>1
<1>4. (ph + r) % 2 = IF r \in {0, 2, 4} THEN ph ELSE 1 - ph
  BY <1>1
<1>5. \A trigger \in Triggers : /\ WindowDue(trigger, age, ph) = WindowTable(trigger, age, ph)
                                /\ WindowDue(trigger, age + s, ph + s) = 
                                     2 * (2 * q + (age + r) \div 3) + WindowTable(trigger, (age + r) % 3, (ph + r) % 2)
  BY <1>2, WindowNow DEF WindowDue
<1>6. "sure" \in Triggers /\ "no" \in Triggers
  BY DEF Triggers
<1>7. /\ WindowDue("sure", age, ph) = (IF age = 2 THEN 0 ELSE 2) + 2 * ph
      /\ WindowDue("no", age, ph) = IF age = 0 THEN 2 * ph ELSE IF age = 1 THEN 4 - 4 * ph ELSE 4
  BY <1>5, <1>6 DEF WindowTable
<1>8. PICK a \in 0..2, f \in {0, 1}, d \in 0..2 :
         a = (age + r) % 3 /\ f = (ph + r) % 2 /\ d = (age + r) \div 3 /\ age + r = 3 * d + a
  <2>1. (age + r) % 3 \in 0..2 /\ (ph + r) % 2 \in {0, 1} /\ (age + r) \div 3 \in 0..2
    BY <1>1
  <2>2. age + r = 3 * ((age + r) \div 3) + ((age + r) % 3)
    BY <1>1
  <2> QED BY <2>1, <2>2
<1>12. /\ WindowDue("sure", age + s, ph + s) = 2 * (2 * q + d) + (IF a = 2 THEN 0 ELSE 2) + 2 * f
       /\ WindowDue("no", age + s, ph + s) = 2 * (2 * q + d) + IF a = 0 THEN 2 * f ELSE IF a = 1 THEN 4 - 4 * f ELSE 4
  <2>1. \A trigger \in Triggers : WindowDue(trigger, age + s, ph + s) = 2 * (2 * q + d) + WindowTable(trigger, a, f)
    BY <1>5, <1>8
  <2>2. WindowTable("sure", a, f) = (IF a = 2 THEN 0 ELSE 2) + 2 * f
    BY DEF WindowTable
  <2>3. WindowTable("no", a, f) = IF a = 0 THEN 2 * f ELSE IF a = 1 THEN 4 - 4 * f ELSE 4
    BY DEF WindowTable
  <2>4. /\ WindowDue("sure", age + s, ph + s) = 2 * (2 * q + d) + WindowTable("sure", a, f)
        /\ WindowDue("no", age + s, ph + s) = 2 * (2 * q + d) + WindowTable("no", a, f)
    BY <1>6, <2>1, Zenon
  <2>5. WindowDue("sure", age + s, ph + s) = 2 * (2 * q + d) + ((IF a = 2 THEN 0 ELSE 2) + 2 * f)
    BY <2>2, <2>4, Zenon
  <2>6. WindowDue("no", age + s, ph + s) = 2 * (2 * q + d) + IF a = 0 THEN 2 * f ELSE IF a = 1 THEN 4 - 4 * f ELSE 4
    BY <2>3, <2>4, Zenon
  <2> QED BY <1>1, <2>5, <2>6
<1>9. PICK cost \in Int : /\ cost = 2 * (s \div 3) + IF s % 6 = 4 THEN 4 ELSE 6
                          /\ cost = 4 * q + (IF r >= 3 THEN 2 ELSE 0) + IF r = 4 THEN 4 ELSE 6
  BY <1>1, <1>2, <1>3
<1>10. f = IF r \in {0, 2, 4} THEN ph ELSE 1 - ph
  BY <1>4, <1>8
<1>11. /\ WindowDue("sure", age + s, ph + s) <= WindowDue("sure", age, ph) + cost
       /\ ph + s >= 2 => WindowDue("sure", age + s, ph + s) <= WindowDue("no", age, ph) + cost
       /\ ph + s < 2 => WindowDue("no", age + s, ph + s) <= WindowDue("no", age, ph) + cost
  BY <1>1, <1>7, <1>8, <1>9, <1>10, <1>12
<1> QED BY <1>9, <1>11, Zenon

(* A step of time, with the interrupts on.                                 *)
LEMMA WindowTick ==
  ASSUME NEW age \in 0..2, NEW ph \in {0, 1}
  PROVE  LET later == IF age = 2 THEN 0 ELSE age + 1
             cost == IF age = 2 THEN 2 ELSE 0
         IN  /\ ph = 0 => cost + WindowDue("no", later, 1) <= WindowDue("no", age, ph)
             /\ ph = 1 => cost + WindowDue("sure", later, 0) <= WindowDue("no", age, ph)
<1>1. "sure" \in Triggers /\ "no" \in Triggers
  BY DEF Triggers
<1>2. ASSUME NEW trigger \in Triggers, NEW a \in 0..2, NEW f \in {0, 1}
      PROVE  WindowDue(trigger, a, f) = WindowTable(trigger, a, f)
  BY WindowNow
<1> QED BY <1>1, <1>2 DEF WindowTable

(* A trigger, early or in time, and whatever a disturbance leaves.         *)
LEMMA WindowFired ==
  ASSUME NEW age \in 0..2, NEW ph \in {0, 1}
  PROVE  /\ age <= 1 => 2 + WindowDue("no", 0, ph) <= WindowDue("sure", age, ph)
         /\ age >= 1 => WindowDue("no", 0, ph) <= WindowDue("sure", age, ph)
         /\ 2 + WindowDue("no", 0, ph) <= 4
         /\ \A trigger \in Triggers : WindowDue(trigger, age, ph) \in 0..4
<1>1. "sure" \in Triggers /\ "no" \in Triggers
  BY DEF Triggers
<1>2. ASSUME NEW trigger \in Triggers, NEW a \in 0..2, NEW f \in {0, 1}
      PROVE  WindowDue(trigger, a, f) = WindowTable(trigger, a, f) /\ WindowTable(trigger, a, f) \in 0..4
  BY WindowNow, WindowTables
<1>3. WindowTable("no", 0, ph) = 2 * ph /\ WindowTable("sure", age, ph) = (IF age = 2 THEN 0 ELSE 2) + 2 * ph
  BY DEF WindowTable
<1>4. WindowDue("no", 0, ph) = 2 * ph /\ WindowDue("sure", age, ph) = (IF age = 2 THEN 0 ELSE 2) + 2 * ph
  <2>1. 0 \in 0..2
    OBVIOUS
  <2> QED BY <1>1, <1>2, <1>3, <2>1
<1>5. \A trigger \in Triggers : WindowDue(trigger, age, ph) \in 0..4
  BY <1>2
<1> QED BY <1>4, <1>5

(* More trouble never means fewer errors.                                  *)
LEMMA QuestTables ==
  /\ \A level \in Levels, beat \in 0..4, ph \in {0, 1} : QuestTable(level, beat, ph) \in 0..8
  /\ \A level \in 0..5, beat \in 0..4, ph \in {0, 1} : QuestTable(level, beat, ph) <= QuestTable(level + 1, beat, ph)
BY DEF QuestTable, IdleTable, Levels

(* The same for levels that are further apart.                             *)
LEMMA QuestOrder ==
  ASSUME NEW level \in Levels, NEW more \in Levels, level <= more, NEW beat \in 0..4, NEW ph \in {0, 1}
  PROVE  QuestTable(level, beat, ph) <= QuestTable(more, beat, ph)
<1> DEFINE T(l) == QuestTable(l, beat, ph)
<1>1. \A l \in Levels : T(l) \in Int
  BY QuestTables
<1>2. \A l \in 0..5 : T(l) <= T(l + 1)
  BY QuestTables
<1> HIDE DEF T
<1>3. 0 \in Levels /\ 1 \in Levels /\ 2 \in Levels /\ 3 \in Levels /\ 4 \in Levels /\ 5 \in Levels /\ 6 \in Levels
  BY DEF Levels
<1>4. T(0) <= T(1) /\ T(1) <= T(2) /\ T(2) <= T(3) /\ T(3) <= T(4) /\ T(4) <= T(5) /\ T(5) <= T(6)
  <2>1. \A l \in {0, 1, 2, 3, 4, 5} : T(l) <= T(l + 1)
    BY <1>2
  <2> QED BY <2>1
<1>5. T(level) <= T(more)
  BY <1>1, <1>3, <1>4 DEF Levels
<1> QED BY <1>5 DEF T

(* A beat of five units more costs two errors, two phases nothing.         *)
LEMMA QuestDues ==
  ASSUME NEW level \in Levels, NEW n \in Nat, NEW p \in Nat
  PROVE  /\ QuestDue(level, n, p) \in Nat
         /\ \A more \in Levels : level <= more => QuestDue(level, n, p) <= QuestDue(more, n, p)
         /\ QuestDue(level, n + 5, p) = QuestDue(level, n, p) + 2
         /\ QuestDue(level, n, p + 2) = QuestDue(level, n, p)
<1>1. n % 5 \in 0..4 /\ n \div 5 \in Nat /\ (n + 5) % 5 = n % 5 /\ (n + 5) \div 5 = n \div 5 + 1
  OBVIOUS
<1>2. p % 2 \in {0, 1} /\ (p + 2) % 2 = p % 2
  OBVIOUS
<1>3. \A l \in Levels : QuestTable(l, n % 5, p % 2) \in 0..8
  BY <1>1, <1>2, QuestTables, Zenon
<1>4. \A more \in Levels : level <= more => QuestTable(level, n % 5, p % 2) <= QuestTable(more, n % 5, p % 2)
  BY <1>1, <1>2, QuestOrder, Zenon
<1> QED BY <1>1, <1>2, <1>3, <1>4 DEF QuestDue

(* Within one beat the table says all.                                     *)
LEMMA QuestNow ==
  ASSUME NEW level \in Levels, NEW beat \in 0..4, NEW ph \in {0, 1}
  PROVE  QuestDue(level, beat, ph) = QuestTable(level, beat, ph)
<1>1. beat % 5 = beat /\ beat \div 5 = 0 /\ ph % 2 = ph
  OBVIOUS
<1>2. QuestTable(level, beat, ph) \in 0..8
  BY QuestTables
<1> QED BY <1>1, <1>2 DEF QuestDue

(* A unit of time never costs more than was due.                           *)
LEMMA QuestTick ==
  ASSUME NEW beat \in 0..4, NEW ph \in {0, 1}, NEW level \in {0, 1, 5}
  PROVE  LET later == IF beat = 4 THEN 0 ELSE beat + 1
             cost == IF beat = 4 THEN 2 ELSE 0
         IN  /\ ph = 0 => cost + QuestDue(level + 1, later, 1) <= QuestDue(level + 1, beat, ph)
             /\ ph = 1 => cost + QuestDue(level, later, 0) <= QuestDue(level + 1, beat, ph)
<1>1. level \in Levels /\ level + 1 \in Levels
  BY DEF Levels
<1>2. ASSUME NEW l \in Levels, NEW b \in 0..4, NEW f \in {0, 1}
      PROVE  QuestDue(l, b, f) = QuestTable(l, b, f)
  BY QuestNow
<1> DEFINE later == IF beat = 4 THEN 0 ELSE beat + 1
           cost == IF beat = 4 THEN 2 ELSE 0
<1>3. later \in 0..4
  OBVIOUS
<1>4. /\ ph = 0 => cost + QuestTable(level + 1, later, 1) <= QuestTable(level + 1, beat, 0)
      /\ ph = 1 => cost + QuestTable(level, later, 0) <= QuestTable(level + 1, beat, 1)
  <2>1. CASE level = 0
    BY <2>1 DEF QuestTable, IdleTable
  <2>2. CASE level = 1
    BY <2>2 DEF QuestTable, IdleTable
  <2>3. CASE level = 5
    BY <2>3 DEF QuestTable, IdleTable
  <2> QED BY <2>1, <2>2, <2>3
<1> HIDE DEF later
<1> QED BY <1>1, <1>2, <1>3, <1>4 DEF later

(* What a time with the interrupts off may cost the functional watchdog.   *)
LEMMA QuestSave ==
  ASSUME NEW beat \in 0..4, NEW ph \in {0, 1}, NEW s \in Nat, NEW level \in {0, 1, 5}
  PROVE  LET cost == 2 * (s \div 5) + 2
         IN  /\ QuestDue(level, beat + s, ph + s) <= QuestDue(level, beat, ph) + cost
             /\ ph + s < 2 => QuestDue(level + 1, beat + s, ph + s) <= QuestDue(level + 1, beat, ph) + cost
<1> DEFINE q == s \div 10
           r == s % 10
<1>1. q \in Nat /\ r \in 0..9 /\ s = 10 * q + r
  OBVIOUS
<1> HIDE DEF q, r
<1>2. /\ s \div 5 = 2 * q + r \div 5
      /\ (beat + s) \div 5 = 2 * q + (beat + r) \div 5 /\ (beat + s) % 5 = (beat + r) % 5
      /\ (ph + s) % 2 = (ph + r) % 2
  BY <1>1
<1>3. r \div 5 = IF r < 5 THEN 0 ELSE 1
  BY <1>1
<1>4. (ph + r) % 2 = IF r \in {0, 2, 4, 6, 8} THEN ph ELSE 1 - ph
  BY <1>1
<1>5. PICK b \in 0..4, f \in {0, 1}, d \in 0..2 :
         b = (beat + r) % 5 /\ f = (ph + r) % 2 /\ d = (beat + r) \div 5 /\ beat + r = 5 * d + b
  <2>1. (beat + r) % 5 \in 0..4 /\ (ph + r) % 2 \in {0, 1} /\ (beat + r) \div 5 \in 0..2
    BY <1>1
  <2>2. beat + r = 5 * ((beat + r) \div 5) + ((beat + r) % 5)
    BY <1>1
  <2> QED BY <2>1, <2>2
<1>6. f = IF r \in {0, 2, 4, 6, 8} THEN ph ELSE 1 - ph
  BY <1>4, <1>5
<1>7. ASSUME NEW l \in Levels
      PROVE  /\ QuestDue(l, beat, ph) = QuestTable(l, beat, ph)
             /\ QuestDue(l, beat + s, ph + s) = 2 * (2 * q + d) + QuestTable(l, b, f)
  BY <1>2, <1>5, QuestNow DEF QuestDue
<1>8. PICK cost \in Int : cost = 2 * (s \div 5) + 2 /\ cost = 4 * q + (IF r < 5 THEN 0 ELSE 2) + 2
  BY <1>1, <1>2, <1>3
<1>9. 2 * d + QuestTable(level, b, f) <= QuestTable(level, beat, ph) + (IF r < 5 THEN 0 ELSE 2) + 2
  <2>1. CASE level = 0
    BY <1>1, <1>5, <1>6, <2>1 DEF QuestTable
  <2>2. CASE level = 1
    BY <1>1, <1>5, <1>6, <2>2 DEF QuestTable
  <2>3. CASE level = 5
    BY <1>1, <1>5, <1>6, <2>3 DEF QuestTable
  <2> QED BY <2>1, <2>2, <2>3
<1>10. ph + s < 2 => 2 * d + QuestTable(level + 1, b, f) <= QuestTable(level + 1, beat, ph) + (IF r < 5 THEN 0 ELSE 2) + 2
  <2>0. SUFFICES ASSUME ph + s < 2
                 PROVE  2 * d + QuestTable(level + 1, b, f) <= QuestTable(level + 1, beat, ph) + (IF r < 5 THEN 0 ELSE 2) + 2
    OBVIOUS
  <2>1. q = 0 /\ r \in {0, 1} /\ ph + r < 2
    BY <1>1, <2>0
  <2>2. CASE level = 0
    BY <1>5, <1>6, <2>1, <2>2 DEF QuestTable, IdleTable
  <2>3. CASE level = 1
    BY <1>5, <1>6, <2>1, <2>3 DEF QuestTable, IdleTable
  <2>4. CASE level = 5
    BY <1>5, <1>6, <2>1, <2>4 DEF QuestTable, IdleTable
  <2> QED BY <2>2, <2>3, <2>4
<1>11. level \in Levels /\ level + 1 \in Levels
  BY DEF Levels
<1>12. \A l \in Levels : QuestTable(l, b, f) \in 0..8 /\ QuestTable(l, beat, ph) \in 0..8
  BY QuestTables
<1> QED BY <1>1, <1>7, <1>8, <1>9, <1>10, <1>11, <1>12

(* What follows what in the lists of the interrupt.                        *)
LEMMA AskOrder ==
  ASSUME NEW s \in Asks
  PROVE  /\ s # <<>> /\ s \notin Replies /\ Head(s) \in Reads
         /\ Tail(s) \in {<<>>} \cup Asks
         /\ Head(s) = "window_read" => Tail(s) # <<>> /\ Head(Tail(s)) = "window_write"
         /\ Head(s) = "window_write" => Tail(s) # <<>> /\ Head(Tail(s)) = "quest_read"
         /\ Head(s) = "quest_read" => Tail(s) = <<>>
<1>1. CASE s = <<"window_read", "window_write", "quest_read">>
  BY <1>1 DEF Asks, Reads, Replies
<1>2. CASE s = <<"window_write", "quest_read">>
  BY <1>2 DEF Asks, Reads, Replies
<1>3. CASE s = <<"quest_read">>
  BY <1>3 DEF Asks, Reads, Replies
<1> QED BY <1>1, <1>2, <1>3 DEF Asks

(* The same where an answer is given.                                      *)
LEMMA ReplyOrder ==
  ASSUME NEW s \in Replies
  PROVE  /\ s # <<>> /\ s \notin Asks /\ Head(s) \in Answers
         /\ Tail(s) \in {<<>>} \cup Replies
         /\ Head(s) = "window_read" => Tail(s) # <<>> /\ Head(Tail(s)) = "window_write"
         /\ Head(s) = "window_write" => Tail(s) # <<>> /\ Head(Tail(s)) = "resp3"
         /\ Head(s) = "resp3" => Tail(s) # <<>> /\ Head(Tail(s)) = "resp2"
         /\ Head(s) = "resp2" => Tail(s) # <<>> /\ Head(Tail(s)) = "resp1"
         /\ Head(s) = "resp1" => Tail(s) # <<>> /\ Head(Tail(s)) = "resp0"
         /\ Head(s) = "resp0" => Tail(s) = <<>>
<1>1. CASE s = <<"window_read", "window_write", "resp3", "resp2", "resp1", "resp0">>
  BY <1>1 DEF Asks, Answers, Replies
<1>2. CASE s = <<"window_write", "resp3", "resp2", "resp1", "resp0">>
  BY <1>2 DEF Asks, Answers, Replies
<1>3. CASE s = <<"resp3", "resp2", "resp1", "resp0">>
  BY <1>3 DEF Asks, Answers, Replies
<1>4. CASE s = <<"resp2", "resp1", "resp0">>
  BY <1>4 DEF Asks, Answers, Replies
<1>5. CASE s = <<"resp1", "resp0">>
  BY <1>5 DEF Asks, Answers, Replies
<1>6. CASE s = <<"resp0">>
  BY <1>6 DEF Asks, Answers, Replies
<1> QED BY <1>1, <1>2, <1>3, <1>4, <1>5, <1>6 DEF Replies

\* The access the interrupt is at, and what that says of the quest.
LEMMA Accesses ==
  ASSUME Queued
  PROVE  /\ Access = "none" <=> todo["isr"] = <<>>
         /\ Access \in {"none", "window_read", "window_write", "quest_read"} \cup Responses
         /\ Access = "quest_read" => lastQuest = Illegal
         /\ Answering => lastQuest # Illegal
         /\ Access # "none" => Access = Head(todo["isr"]) /\ timer = FALSE /\ masked = 0 /\ ~Coming
<1>1. CASE todo["isr"] = <<>>
  BY <1>1 DEF Access, Answering, Responses
<1>2. CASE todo["isr"] \in Asks
  <2>1. todo["isr"] # <<>> /\ Head(todo["isr"]) \in Reads
    BY <1>2, AskOrder, Zenon
  <2> QED BY <1>2, <2>1 DEF Access, Answering, Responses, Reads, Queued, Coming
<1>3. CASE todo["isr"] \in Replies
  <2>1. todo["isr"] # <<>> /\ Head(todo["isr"]) \in Answers
    BY <1>3, ReplyOrder, Zenon
  <2> QED BY <1>3, <2>1 DEF Access, Answering, Responses, Answers, Queued, Coming
<1> QED BY <1>1, <1>2, <1>3 DEF Queued

\* The access after it.
Following ==
    CASE Access = "window_read" -> "window_write"
      [] Access = "window_write" -> IF lastQuest = Illegal THEN "quest_read" ELSE "resp3"
      [] Access = "resp3" -> "resp2"
      [] Access = "resp2" -> "resp1"
      [] Access = "resp1" -> "resp0"
      [] OTHER -> "none"

(* The interrupt goes on to its next access, in the order of its list.     *)
LEMMA Onward ==
  ASSUME Queued, todo["isr"] # <<>>, todo'["isr"] = Tail(todo["isr"])
  PROVE  /\ Access' = Following
         /\ todo'["isr"] \in {<<>>} \cup Asks \cup Replies
         /\ todo'["isr"] \in Asks => lastQuest = Illegal /\ Access # "quest_read"
         /\ todo'["isr"] \in Replies => lastQuest # Illegal /\ Access # "resp0"
<1>1. CASE todo["isr"] \in Asks
  <2> DEFINE s == todo["isr"]
  <2>1. /\ s # <<>> /\ s \notin Replies /\ Head(s) \in Reads
        /\ Tail(s) \in {<<>>} \cup Asks
        /\ Head(s) = "window_read" => Tail(s) # <<>> /\ Head(Tail(s)) = "window_write"
        /\ Head(s) = "window_write" => Tail(s) # <<>> /\ Head(Tail(s)) = "quest_read"
        /\ Head(s) = "quest_read" => Tail(s) = <<>>
    BY <1>1, AskOrder, Zenon
  <2>2. \A t \in Asks : t # <<>> /\ t \notin Replies
    BY AskOrder, Zenon
  <2>3. lastQuest = Illegal
    BY <1>1 DEF Queued
  <2>4. Access = Head(s)
    BY <2>1 DEF Access
  <2>5. Access' = IF Tail(s) = <<>> THEN "none" ELSE Head(Tail(s))
    BY DEF Access
  <2>6. Access' = Following
    BY <2>1, <2>3, <2>4, <2>5 DEF Following, Reads
  <2>7. \A t \in Replies : t # <<>>
    BY ReplyOrder, Zenon
  <2> QED BY <2>1, <2>2, <2>3, <2>4, <2>6, <2>7, Zenon
<1>2. CASE todo["isr"] \in Replies
  <2> DEFINE s == todo["isr"]
  <2>1. /\ s # <<>> /\ s \notin Asks /\ Head(s) \in Answers
        /\ Tail(s) \in {<<>>} \cup Replies
        /\ Head(s) = "window_read" => Tail(s) # <<>> /\ Head(Tail(s)) = "window_write"
        /\ Head(s) = "window_write" => Tail(s) # <<>> /\ Head(Tail(s)) = "resp3"
        /\ Head(s) = "resp3" => Tail(s) # <<>> /\ Head(Tail(s)) = "resp2"
        /\ Head(s) = "resp2" => Tail(s) # <<>> /\ Head(Tail(s)) = "resp1"
        /\ Head(s) = "resp1" => Tail(s) # <<>> /\ Head(Tail(s)) = "resp0"
        /\ Head(s) = "resp0" => Tail(s) = <<>>
    BY <1>2, ReplyOrder, Zenon
  <2>2. \A t \in Replies : t # <<>> /\ t \notin Asks
    BY ReplyOrder, Zenon
  <2>3. lastQuest # Illegal
    BY <1>2 DEF Queued
  <2>4. Access = Head(s)
    BY <2>1 DEF Access
  <2>5. Access' = IF Tail(s) = <<>> THEN "none" ELSE Head(Tail(s))
    BY DEF Access
  <2>6. Access' = Following
    BY <2>1, <2>3, <2>4, <2>5 DEF Following, Answers
  <2>7. \A t \in Asks : t # <<>>
    BY AskOrder, Zenon
  <2> QED BY <2>1, <2>2, <2>3, <2>4, <2>6, <2>7, Zenon
<1> QED BY <1>1, <1>2 DEF Queued

\* The numbers of the device and of the clock.
Numbers ==
    /\ dev.age \in 0..2 /\ dev.beat \in 0..4 /\ dev.count \in 1..4
    /\ dev.windowErrors \in Nat /\ dev.functionalErrors \in Nat
    /\ phase \in {0, 1} /\ masked \in Nat
    /\ faults \in Nat /\ overlaps \in Nat /\ saves \in Nat

(* They are numbers, and within their ranges.                              *)
LEMMA Counters == TypeOK => Numbers
<1> SUFFICES ASSUME TypeOK PROVE Numbers
  OBVIOUS
<1>1. SaveUnits \in Nat /\ MaxSaves \in Nat
  BY PmicAssumption
<1>2. masked \in Nat /\ saves \in Nat /\ faults \in Nat /\ overlaps \in Nat /\ phase \in {0, 1}
  BY <1>1 DEF TypeOK
<1>3. dev \in Device
  BY DEF TypeOK, Device
<1> QED BY <1>2, <1>3 DEF Numbers, Device

(* A save costs a number of errors.                                        *)
LEMMA Costs == WindowCost \in Nat /\ QuestCost \in Nat
<1>1. SaveUnits \in Nat
  BY PmicAssumption
<1>2. SaveUnits \div 3 \in Nat /\ SaveUnits \div 5 \in Nat
  BY <1>1
<1> QED BY <1>2 DEF WindowCost, QuestCost

\* What each disturbance and each save adds to the budgets.
LEMMA Budgets ==
  ASSUME Numbers
  PROVE  /\ WindowBudget \in Nat /\ QuestBudget \in Nat
         /\ \A f, o, s \in Nat :
                /\ f + o = faults + overlaps /\ s = saves =>
                      /\ 4 * (f + o) + s * WindowCost = WindowBudget
                      /\ 8 * (f + o) + s * QuestCost = QuestBudget
                /\ f + o = faults + overlaps + 1 /\ s = saves =>
                      /\ 4 * (f + o) + s * WindowCost = WindowBudget + 4
                      /\ 8 * (f + o) + s * QuestCost = QuestBudget + 8
                /\ f + o = faults + overlaps /\ s = saves + 1 =>
                      /\ 4 * (f + o) + s * WindowCost = WindowBudget + WindowCost
                      /\ 8 * (f + o) + s * QuestCost = QuestBudget + QuestCost
<1>1. faults \in Nat /\ overlaps \in Nat /\ saves \in Nat
  BY DEF Numbers
<1>2. \A s, c \in Nat : s * c \in Nat /\ (s + 1) * c = s * c + c
  OBVIOUS
<1>3. saves * WindowCost \in Nat /\ saves * QuestCost \in Nat
      /\ (saves + 1) * WindowCost = saves * WindowCost + WindowCost
      /\ (saves + 1) * QuestCost = saves * QuestCost + QuestCost
  BY <1>1, <1>2, Costs, Zenon
<1> QED BY <1>1, <1>3, Costs DEF WindowBudget, QuestBudget

(* The budgets after a step.                                               *)
LEMMA BudgetsLater ==
  ASSUME Numbers, Numbers'
  PROVE  /\ faults' + overlaps' = faults + overlaps /\ saves' = saves =>
                WindowBudget' = WindowBudget /\ QuestBudget' = QuestBudget
         /\ faults' + overlaps' = faults + overlaps + 1 /\ saves' = saves =>
                WindowBudget' = WindowBudget + 4 /\ QuestBudget' = QuestBudget + 8
         /\ faults' + overlaps' = faults + overlaps /\ saves' = saves + 1 =>
                WindowBudget' = WindowBudget + WindowCost /\ QuestBudget' = QuestBudget + QuestCost
<1>1. faults' \in Nat /\ overlaps' \in Nat /\ saves' \in Nat
  BY DEF Numbers
<1>2. /\ WindowBudget' = 4 * (faults' + overlaps') + saves' * WindowCost
      /\ QuestBudget' = 8 * (faults' + overlaps') + saves' * QuestCost
  BY DEF WindowBudget, QuestBudget, WindowCost, QuestCost
<1> QED BY <1>1, <1>2, Budgets, Zenon

\* Errors that fit the budgets stay below the threshold.
Margin ==
    /\ 4 * MaxDisturbed + MaxSaves * WindowCost <= ErrorThreshold
    /\ 8 * MaxDisturbed + MaxSaves * QuestCost <= ErrorThreshold

(* While disturbances and saves are within their bounds the budgets fit.   *)
LEMMA InBudget ==
  ASSUME Margin, TypeOK, faults + overlaps <= MaxDisturbed
  PROVE  WindowBudget <= ErrorThreshold /\ QuestBudget <= ErrorThreshold
<1>1. MaxDisturbed \in Nat /\ MaxSaves \in Nat /\ ErrorThreshold \in Nat
  BY PmicAssumption
<1>2. faults \in Nat /\ overlaps \in Nat /\ saves \in Nat /\ saves <= MaxSaves
  BY <1>1 DEF TypeOK
<1>3. \A s, m, c \in Nat : s <= m => s * c \in Nat /\ m * c \in Nat /\ s * c <= m * c
  <2> SUFFICES ASSUME NEW s \in Nat, NEW m \in Nat, NEW c \in Nat, s <= m
               PROVE  s * c \in Nat /\ m * c \in Nat /\ s * c <= m * c
    OBVIOUS
  <2>1. PICK d \in Nat : m = s + d
    <3>1. m - s \in Nat /\ m = s + (m - s)
      OBVIOUS
    <3> QED BY <3>1
  <2>2. s * c \in Nat /\ d * c \in Nat /\ m * c = s * c + d * c
    BY <2>1
  <2> QED BY <2>2
<1>4. saves * WindowCost \in Nat /\ MaxSaves * WindowCost \in Nat /\ saves * WindowCost <= MaxSaves * WindowCost
  BY <1>1, <1>2, <1>3, Costs, Zenon
<1>5. saves * QuestCost \in Nat /\ MaxSaves * QuestCost \in Nat /\ saves * QuestCost <= MaxSaves * QuestCost
  BY <1>1, <1>2, <1>3, Costs, Zenon
<1>6. 4 * (faults + overlaps) <= 4 * MaxDisturbed /\ 8 * (faults + overlaps) <= 8 * MaxDisturbed
  BY <1>1, <1>2
<1> QED BY <1>1, <1>2, <1>4, <1>5, <1>6 DEF Margin, WindowBudget, QuestBudget

(* What a trigger, the trouble and the class may be.                       *)
LEMMA Kinds ==
  ASSUME Numbers
  PROVE  /\ Trigger \in Triggers /\ Trouble \in Levels
         /\ WellServed \in {0, 1, 5} /\ IllServed = WellServed + 1
         /\ Class \in {"ask", "good", "bad"}
<1>1. Trigger \in Triggers
  BY DEF Trigger, Triggers
<1>2. Class \in {"ask", "good", "bad"}
  BY DEF Class
<1>3. WellServed \in {0, 1, 5} /\ IllServed = WellServed + 1
  BY <1>2 DEF WellServed, IllServed
<1>4. Trouble \in Levels
  BY <1>3 DEF Trouble, Unfair, Levels
<1> QED BY <1>1, <1>2, <1>3, <1>4, Zenon

(* A step of the driver, or of the bus, that the watchdogs do not notice.  *)
LEMMA WindowSteady ==
  ASSUME Numbers, Numbers', WindowBounded,
         dev'.windowErrors <= dev.windowErrors, dev'.age = dev.age,
         masked' = masked, phase' = phase, WindowBudget' = WindowBudget,
         Trigger' = Trigger \/ Trigger = "perhaps"
  PROVE  WindowBounded'
<1>1. PICK t \in Triggers, u \in Triggers : t = Trigger /\ u = Trigger'
  <2>1. Trigger \in Triggers /\ Trigger' \in Triggers
    BY DEF Trigger, Triggers
  <2> QED BY <2>1, Zenon
<1> DEFINE n == dev.age + masked  p == phase + masked
<1>2. n \in Nat /\ p \in Nat
  BY DEF Numbers
<1>3. dev'.age + masked' = n /\ phase' + masked' = p
  OBVIOUS
<1>4. dev.windowErrors + WindowDue(t, n, p) <= WindowBudget
  BY <1>1 DEF WindowBounded
<1> HIDE DEF n, p
<1>5. /\ WindowDue(t, n, p) \in Nat /\ WindowDue(u, n, p) \in Nat
      /\ WindowDue(u, n, p) <= WindowDue("perhaps", n, p)
  BY <1>2, WindowDues, Zenon
<1>7. WindowDue(u, n, p) <= WindowDue(t, n, p)
  <2>1. CASE t = u
    BY <1>5, <2>1
  <2>2. CASE t = "perhaps"
    BY <1>5, <2>2, Zenon
  <2> QED BY <1>1, <2>1, <2>2, Zenon
<1>6. dev'.windowErrors + WindowDue(u, n, p) <= WindowBudget'
  BY <1>1, <1>4, <1>5, <1>7, Budgets DEF Numbers
<1> QED BY <1>1, <1>3, <1>6, Zenon DEF WindowBounded

(* The same for the functional watchdog.                                   *)
LEMMA QuestSteady ==
  ASSUME Numbers, Numbers', QuestBounded,
         dev'.functionalErrors <= dev.functionalErrors, dev'.beat = dev.beat,
         masked' = masked, phase' = phase, QuestBudget' = QuestBudget,
         Trouble' <= Trouble
  PROVE  QuestBounded'
<1>1. PICK t \in Levels, u \in Levels : t = Trouble /\ u = Trouble'
  <2>1. Trouble \in Levels
    BY Kinds
  <2>2. Trouble' \in Levels
    <3>1. WellServed' \in {0, 1, 5} /\ IllServed' \in {1, 2, 6}
      BY DEF WellServed, IllServed, Class
    <3> QED BY <3>1 DEF Trouble, Unfair, Levels
  <2> QED BY <2>1, <2>2, Zenon
<1> DEFINE n == dev.beat + masked  p == phase + masked
<1>2. n \in Nat /\ p \in Nat
  BY DEF Numbers
<1>3. dev'.beat + masked' = n /\ phase' + masked' = p
  OBVIOUS
<1>4. dev.functionalErrors + QuestDue(t, n, p) <= QuestBudget
  BY <1>1 DEF QuestBounded
<1> HIDE DEF n, p
<1>5. QuestDue(t, n, p) \in Nat /\ QuestDue(u, n, p) \in Nat /\ QuestDue(u, n, p) <= QuestDue(t, n, p)
  BY <1>1, <1>2, QuestDues
<1>6. dev'.functionalErrors + QuestDue(u, n, p) <= QuestBudget'
  BY <1>1, <1>4, <1>5, Budgets DEF Numbers
<1> QED BY <1>1, <1>3, <1>6, Zenon DEF QuestBounded

\* What may be relied on while the device is in NORMAL.
InService == WatchdogInv /\ Shared /\ Running

(* The frames and the request the interrupt makes next.                    *)
LEMMA FramesSound ==
  ASSUME InService
  PROVE  /\ TypeOK /\ Numbers /\ Queued /\ Traffic /\ Synchronous /\ WindowBounded /\ QuestBounded
         /\ dev.state = "normal" /\ faults + overlaps <= MaxDisturbed
         /\ shift # None => Sound(shift)
         /\ txbuf # None => Sound(txbuf)
         /\ Access # "none" => Sound(Request(Access)) /\ Request(Access).step = Access
BY Counters, Accesses, HeadRequest, Requested, Zenon DEF InService, WatchdogInv, Running, Loaded

(* A write is a frame that is not a read.                                  *)
LEMMA ReadOrWrite ==
  ASSUME NEW f, Sound(f)
  PROVE  /\ f.op = "read" <=> f.step \in ReadSteps
         /\ f.op = "write" <=> f.step \notin ReadSteps
         /\ f.step = "window_write" => f.op = "write"
         /\ f.step \in Responses => f.op = "write"
         /\ f \in Frames
BY DEF Sound, ReadSteps, Responses

\* What every step of the driver leaves alone.
Apart ==
    /\ dev' = dev /\ timer' = timer /\ masked' = masked /\ phase' = phase
    /\ faults' = faults /\ overlaps' = overlaps /\ saves' = saves

(* A step of the driver keeps the bounds when it keeps the rest.           *)
LEMMA DriverKept ==
  ASSUME InService, TypeOK', Apart, Queued', Traffic', Synchronous',
         Trigger' = Trigger \/ Trigger = "perhaps", Trouble' <= Trouble
  PROVE  Running'
<1>1. Numbers /\ Numbers' /\ WindowBounded /\ QuestBounded /\ dev.state = "normal" /\ faults + overlaps <= MaxDisturbed
  <2>1. Numbers /\ WindowBounded /\ QuestBounded /\ dev.state = "normal" /\ faults + overlaps <= MaxDisturbed
    BY FramesSound
  <2>2. Numbers'
    BY Counters, PTL
  <2> QED BY <2>1, <2>2
<1>2. WindowBudget' = WindowBudget /\ QuestBudget' = QuestBudget
  BY <1>1, BudgetsLater DEF Apart
<1>3. dev'.windowErrors <= dev.windowErrors /\ dev'.functionalErrors <= dev.functionalErrors
      /\ dev'.age = dev.age /\ dev'.beat = dev.beat
  BY <1>1 DEF Apart, Numbers
<1>4. WindowBounded'
  BY <1>1, <1>2, <1>3, WindowSteady, Zenon DEF Apart
<1>5. QuestBounded'
  BY <1>1, <1>2, <1>3, QuestSteady, Zenon DEF Apart
<1> QED BY <1>1, <1>4, <1>5, Zenon DEF Running, Apart

(* The interrupt hands over a request.                                     *)
LEMMA IsrLoad ==
  ASSUME InService, WatchdogInv', Load("isr")
  PROVE  Running'
<1> DEFINE R == Request(Access)
<1>1. /\ TypeOK /\ Numbers /\ Queued /\ Traffic /\ Synchronous
      /\ shift # None => Sound(shift)
      /\ txbuf # None => Sound(txbuf)
  BY FramesSound
<1>2. /\ todo["isr"] # <<>> /\ pc["isr"] = "load" /\ txbuf = None
      /\ pc' = [pc EXCEPT !["isr"] = "await"]
      /\ UNCHANGED <<todo, windowStatus, lastQuest, rxbuf, intFlag>>
      /\ Apart
  BY DEF Load, Runs, Busy, clock, history, Apart
<1>3. /\ Access \in {"window_read", "window_write", "quest_read"} \cup Responses
      /\ Access = Head(todo["isr"]) /\ timer = FALSE /\ masked = 0 /\ ~Coming
      /\ Access = "quest_read" => lastQuest = Illegal
  BY <1>1, <1>2, Accesses
<1>4. Sound(R) /\ R.step = Access
  BY <1>3, FramesSound DEF Responses
<1>5. /\ Access' = Access /\ R' = R /\ pc'["isr"] = "await" /\ pc'["main"] = pc["main"] /\ ~Coming'
      /\ Class' = Class /\ IllServed' = IllServed /\ WellServed' = WellServed
  BY <1>1, <1>2, <1>3 DEF Access, Request, Frame, TypeOK, Coming, Apart, Class, IllServed, WellServed
<1>6. \/ shift = None /\ shift' = R /\ txbuf' = None
      \/ shift # None /\ shift' = shift /\ txbuf' = R
  BY <1>2, <1>3 DEF Load
<1>7. R # None /\ R.op \in {"read", "write"}
  BY <1>4, ReadOrWrite, NoneAssumption DEF Sound
<1> HIDE DEF R
<1>8. Access = "quest_read" \/ Answering => shift = None /\ ~intFlag
  BY <1>1, <1>2 DEF Traffic, InStep, Unloaded, Underway, Through, Astray, Vacant
<1>9. Access \in {"window_read", "window_write"} => ReadsOnly
  BY <1>1, <1>2 DEF Traffic, BeforeWrite
<1>10. shift # None => Access \in {"window_read", "window_write"} /\ shift.op = "read"
  BY <1>3, <1>8, <1>9 DEF Answering, ReadsOnly
<1>11. InStep' = InStep /\ (InStep <=> shift = None /\ ~intFlag)
  <2>1. InStep <=> shift = None /\ ~intFlag
    BY <1>2 DEF InStep, Unloaded, Underway, Through, Vacant
  <2>2. InStep' <=> shift = None /\ ~intFlag
    BY <1>2, <1>5, <1>6, <1>7 DEF InStep, Unloaded, Underway, Through, Vacant, R
  <2> QED BY <2>1, <2>2
<1>12. ~Through /\ ~Through'
  BY <1>2, <1>6, <1>7 DEF Through, Vacant
<1>13. ReadsOnly /\ Access = "window_read" => ReadsOnly'
  BY <1>2, <1>4, <1>6 DEF ReadsOnly, ReadSteps, Sound
<1>14. Traffic'
  <2>1. (timer = TRUE \/ BeforeWrite)' => ReadsOnly'
    BY <1>2, <1>3, <1>5, <1>9, <1>13 DEF BeforeWrite, Apart
  <2>2. txbuf' # None => shift' # None /\ shift'.op = "read"
    BY <1>6, <1>10
  <2>3. (intFlag /\ rxbuf.op = "write" => Vacant)'
    BY <1>2, <1>3, <1>8, <1>9 DEF ReadsOnly, Answering
  <2>4. (Access = "quest_read" \/ Answering => InStep \/ Astray)'
    BY <1>5, <1>8, <1>11 DEF Answering
  <2>5. (shift # None /\ shift.op = "write" => shift.step = "window_write" \/ Answering)'
    BY <1>3, <1>4, <1>5, <1>6, <1>10, ReadOrWrite DEF Answering, ReadSteps
  <2>6. (txbuf # None /\ txbuf.op = "write" => txbuf.step = "window_write")'
    BY <1>3, <1>4, <1>5, <1>6, <1>10, ReadOrWrite DEF ReadSteps
  <2> QED BY <2>1, <2>2, <2>3, <2>4, <2>5, <2>6 DEF Traffic
<1>15. Queued' /\ Synchronous'
  BY <1>1, <1>2, <1>5, <1>12 DEF Queued, Synchronous, Answering, Apart
<1>16. Trigger' = Trigger \/ Trigger = "perhaps"
  <2>1. CASE Access = "window_read"
    BY <1>1, <1>2, <1>3, <1>4, <1>5, <1>6, <1>9, <1>10, <1>11, <2>1, ReadOrWrite
       DEF Trigger, Sure, Perhaps, BeforeWrite, ReadSteps
  <2>2. CASE Access = "window_write"
    <3>1. Perhaps
      BY <1>2, <2>2 DEF Perhaps, BeforeWrite
    <3>2. Sure => Sure'
      <4>1. SUFFICES ASSUME Sure PROVE Sure'
        OBVIOUS
      <4>2. shift # None => shift.step # "window_write"
        BY <1>1, <1>10, ReadOrWrite
      <4>3. Unloaded /\ windowStatus = 128 * dev.trigger
        BY <1>3, <2>2, <4>1, <4>2 DEF Sure
      <4>4. R.data = 1 - windowStatus \div 128
        BY <2>2 DEF R, Request, Frame, ReadSteps, ResponseIndex
      <4>5. dev.trigger \in {0, 1}
        BY <1>1 DEF TypeOK
      <4>6. R.data # dev.trigger
        BY <4>3, <4>4, <4>5
      <4>7. shift' = R
        BY <1>6, <4>3 DEF Unloaded, Vacant
      <4> QED BY <1>2, <1>4, <1>7, <2>2, <4>6, <4>7 DEF Sure, Apart
    <3> QED BY <3>1, <3>2 DEF Trigger
  <2>3. CASE Access = "quest_read" \/ Answering
    <3>1. shift = None /\ shift' = R /\ txbuf' = None /\ R.step # "window_write"
      BY <1>4, <1>6, <1>8, <2>3 DEF Answering, Responses
    <3> QED BY <1>2, <1>3, <1>5, <2>3, <3>1 DEF Trigger, Sure, Perhaps, BeforeWrite, Answering, Responses
  <2> QED BY <1>3, <2>1, <2>2, <2>3 DEF Answering
<1>17. Trouble' = Trouble
  <2>1. Byte' = Byte
    BY <1>5, <1>12 DEF Byte
  <2> QED BY <1>2, <1>5, <1>11, <2>1 DEF Trouble, Fair, Unfair, Answering, Apart
<1>18. Trouble' <= Trouble /\ TypeOK'
  BY <1>1, <1>17, Kinds DEF Levels, WatchdogInv
<1> QED BY <1>2, <1>14, <1>15, <1>16, <1>18, DriverKept, Zenon

(* The interrupt sees the flag.                                            *)
LEMMA IsrSeeFlag ==
  ASSUME InService, WatchdogInv', SeeFlag("isr")
  PROVE  Running'
<1> DEFINE R == Request(Access)
<1>1. TypeOK /\ Numbers /\ Queued /\ Traffic /\ Synchronous
  BY FramesSound
<1>2. /\ todo["isr"] # <<>> /\ pc["isr"] = "await" /\ intFlag
      /\ pc' = [pc EXCEPT !["isr"] = "take"]
      /\ UNCHANGED <<todo, windowStatus, lastQuest, shift, txbuf>>
      /\ UNCHANGED <<rxbuf, intFlag>>
      /\ Apart
  BY DEF SeeFlag, Runs, Busy, clock, history, Apart, spi
<1>3. /\ Access' = Access /\ R' = R /\ pc'["isr"] = "take" /\ pc'["main"] = pc["main"] /\ Coming' = Coming
      /\ Class' = Class /\ IllServed' = IllServed /\ WellServed' = WellServed
  BY <1>1, <1>2 DEF Access, Request, Frame, TypeOK, Coming, Apart, Class, IllServed, WellServed
<1> HIDE DEF R
<1>4. Fitting' = Fitting /\ Vacant' = Vacant
  BY <1>2, <1>3 DEF Fitting, Vacant, Apart, R
<1>5. Through' = Through /\ InStep' = InStep /\ ~Unloaded /\ ~Unloaded' /\ (Astray' <=> Astray)
  BY <1>2, <1>3, <1>4 DEF InStep, Unloaded, Underway, Through, Astray
<1>6. BeforeWrite' = BeforeWrite /\ Answering' = Answering
  BY <1>2, <1>3 DEF BeforeWrite, Answering
<1>7. Traffic'
  BY <1>1, <1>2, <1>3, <1>4, <1>5, <1>6 DEF Traffic, ReadsOnly, Apart
<1>8. Queued' /\ Synchronous'
  BY <1>1, <1>2, <1>3, <1>5, <1>6 DEF Queued, Synchronous, Apart
<1>9. Trigger' = Trigger
  BY <1>2, <1>3, <1>5, <1>6 DEF Trigger, Sure, Perhaps, Apart
<1>10. Trouble' = Trouble
  <2>1. Byte' = Byte
    BY <1>3, <1>5 DEF Byte
  <2> QED BY <1>2, <1>3, <1>5, <1>6, <2>1 DEF Trouble, Fair, Unfair, Apart
<1>11. Trouble' <= Trouble /\ TypeOK'
  BY <1>1, <1>10, Kinds DEF Levels, WatchdogInv
<1> QED BY <1>2, <1>7, <1>8, <1>9, <1>11, DriverKept, Zenon

(* The interrupt goes on with an answer, or without one.                   *)
LEMMA IsrComplete ==
  ASSUME InService, WatchdogInv', NEW answer \in Frames, todo["isr"] # <<>>, pc["isr"] # "load",
         Complete("isr", answer), Apart, intFlag' = FALSE,
         shift' = shift, txbuf' = txbuf, rxbuf' = rxbuf,
         \/ intFlag /\ answer = rxbuf
         \/ ~intFlag /\ Vacant /\ answer = AllOnes
  PROVE  Running'
<1> DEFINE R == Request(Access)
           ok == Accepted(R, answer)
<1>1. /\ TypeOK /\ Numbers /\ Queued /\ Traffic /\ Synchronous
      /\ shift # None => Sound(shift)
      /\ txbuf # None => Sound(txbuf)
  BY FramesSound
<1>2. /\ Access \in {"window_read", "window_write", "quest_read"} \cup Responses
      /\ Access = Head(todo["isr"]) /\ timer = FALSE /\ masked = 0 /\ ~Coming
      /\ Access = "quest_read" => lastQuest = Illegal
      /\ Answering => lastQuest # Illegal
  BY <1>1, Accesses
<1>3. /\ todo'["isr"] = IF ok THEN Tail(todo["isr"]) ELSE <<>>
      /\ todo'["main"] = todo["main"]
      /\ pc'["isr"] = "load" /\ pc'["main"] = pc["main"]
      /\ windowStatus' = IF Access = "window_read" /\ ok THEN answer.data ELSE 0
      /\ lastQuest' = IF ~ok THEN lastQuest
                      ELSE CASE Access = "quest_read" -> answer.data % 16
                             [] Access = "resp0" -> Illegal
                             [] OTHER -> lastQuest
  BY <1>1, <1>2 DEF Complete, TypeOK
<1>4. Sound(R) /\ R.step = Access
  BY <1>2, FramesSound DEF Responses
<1>5. R.op = IF Access \in ReadSteps THEN "read" ELSE "write"
  BY <1>4, ReadOrWrite
<1>6. ok <=> IF Access \in ReadSteps THEN answer.op # "garbled" ELSE answer = R
  BY <1>5 DEF Accepted
<1>7. R # None
  BY <1>4, ReadOrWrite, NoneAssumption
<1> HIDE DEF R, ok
<1>8. InStep => Vacant /\ Fitting /\ answer = rxbuf /\ intFlag
  BY <1>7 DEF InStep, Unloaded, Underway, Through, Vacant, R
<1>9. ok /\ Access \notin ReadSteps => InStep
  <2>1. SUFFICES ASSUME ok, Access \notin ReadSteps PROVE InStep
    OBVIOUS
  <2>2. answer = R /\ answer.op = "write"
    BY <1>5, <1>6, <2>1
  <2>3. intFlag /\ answer = rxbuf
    BY <2>2 DEF AllOnes, Frame
  <2>4. Vacant
    BY <1>1, <2>2, <2>3 DEF Traffic
  <2>5. Fitting
    BY <2>1, <2>2, <2>3 DEF Fitting, ReadSteps, R
  <2> QED BY <2>3, <2>4, <2>5 DEF InStep, Through
<1>10. InStep => ok
  BY <1>2, <1>6, <1>8 DEF Fitting, ReadSteps, Responses, R
<1>11. InStep' <=> Vacant
  BY <1>3 DEF InStep, Unloaded, Underway, Through, Vacant
<1>12. Access = "quest_read" \/ Answering => Vacant
  BY <1>1, <1>8 DEF Traffic, Astray
<1>13. ~Coming' /\ ~Through'
  <2>1. phase + masked < 2
    BY <1>1, <1>2 DEF Numbers
  <2>2. ~Coming'
    <3>1. timer' # TRUE
      BY <1>2 DEF Apart
    <3>2. phase' = phase /\ masked' = masked /\ ~(phase + masked >= 2)
      BY <1>1, <2>1 DEF Apart, Numbers
    <3> QED BY <3>1, <3>2, Zenon DEF Coming
  <2>3. ~Through'
    BY <1>3 DEF Through
  <2> QED BY <2>2, <2>3
<1>14. /\ Class \in {"ask", "good", "bad"}
       /\ WellServed \in {0, 1, 5} /\ IllServed = WellServed + 1
       /\ lastQuest' = lastQuest => Class' = Class /\ IllServed' = IllServed /\ WellServed' = WellServed
  BY <1>1, Kinds DEF Class, WellServed, IllServed, Apart
<1>15. Access \in {"window_read", "window_write"} => lastQuest' = lastQuest
  BY <1>3
<1>16. Synchronous /\ lastQuest = Illegal => dev.count = 1 /\ dev.right = TRUE
  BY <1>2 DEF Synchronous
<1>17. /\ InStep /\ Access # "window_read" => ~BeforeWrite
       /\ Perhaps /\ Sure => InStep \/ (shift # None /\ shift.step = "window_write")
       /\ BeforeWrite <=> Access = "window_read"
  BY <1>2 DEF BeforeWrite, Sure, Unloaded
<1>20. Access = "window_read" /\ ~InStep => Trigger = "perhaps"
  <2>1. SUFFICES ASSUME Access = "window_read", ~InStep PROVE Trigger = "perhaps"
    OBVIOUS
  <2>2. shift # None => shift.step # "window_write"
    BY <1>1, <1>17, <2>1, ReadOrWrite DEF Traffic, ReadsOnly
  <2> QED BY <1>2, <2>1, <2>2 DEF Trigger, Sure, Perhaps, BeforeWrite
<1>18. ASSUME ~ok PROVE Running'
  <2>1. /\ todo'["isr"] = <<>> /\ Access' = "none" /\ ~Answering' /\ lastQuest' = lastQuest /\ ~InStep
        /\ ~BeforeWrite'
    BY <1>3, <1>10, <1>18 DEF Access, Answering, Responses, BeforeWrite
  <2>2. Queued' /\ Synchronous'
    <3>1. Synchronous'
      BY <1>1, <1>13, <1>16, <2>1 DEF Synchronous, Apart
    <3>2. Queued'
      BY <1>1, <1>3, <2>1, AskOrder, ReplyOrder DEF Queued, Apart
    <3> QED BY <3>1, <3>2
  <2>3. Traffic'
    BY <1>1, <1>2, <1>12, <2>1 DEF Traffic, Vacant, Apart, Answering, Responses
  <2>4. Trigger' = Trigger \/ Trigger = "perhaps"
    <3>1. CASE Access = "window_read"
      BY <1>18, <1>20, <2>1, <3>1, Zenon
    <3>2. CASE Access # "window_read"
      BY <1>2, <1>13, <1>17, <2>1, <3>2 DEF Trigger, Sure, Perhaps, Unloaded, Apart, Vacant
    <3> QED BY <3>1, <3>2
  <2>5. Trouble' <= Trouble
    <3>1. Trouble' = IllServed
      BY <1>13, <1>14, <2>1 DEF Trouble
    <3>2. Trouble = IllServed \/ (Access = "quest_read" /\ Trouble = 6)
      BY <1>2, <2>1 DEF Trouble
    <3> QED BY <1>14, <3>1, <3>2
  <2> QED BY <2>2, <2>3, <2>4, <2>5, DriverKept, Zenon DEF WatchdogInv
<1>19. ASSUME ok PROVE Running'
  <2>1. todo'["isr"] = Tail(todo["isr"])
    BY <1>3, <1>19
  <2>2. /\ Access' = Following
        /\ todo'["isr"] \in {<<>>} \cup Asks \cup Replies
        /\ todo'["isr"] \in Asks => lastQuest = Illegal /\ Access # "quest_read"
        /\ todo'["isr"] \in Replies => lastQuest # Illegal /\ Access # "resp0"
    BY <1>1, <2>1, Onward
  <2>3. Queued'
    <3>1. todo'["isr"] \in Asks => lastQuest' = Illegal
      BY <1>2, <1>3, <2>2 DEF Responses
    <3>2. todo'["isr"] \in Replies => lastQuest' # Illegal
      BY <1>2, <1>3, <2>2, AskOrder DEF Following, Responses
    <3> QED BY <1>1, <1>2, <1>3, <2>2, <3>1, <3>2 DEF Queued, Apart
  <2>4. CASE Access = "window_read"
    <3>1. Access' = "window_write" /\ lastQuest' = lastQuest /\ todo'["isr"] # <<>> /\ ~Answering' /\ ~Answering /\ BeforeWrite'
      BY <1>3, <2>2, <2>4 DEF Following, Access, Answering, Responses, BeforeWrite
    <3>2. Synchronous'
      BY <1>1, <1>16, <3>1 DEF Synchronous, Apart
    <3>3. Traffic'
      BY <1>1, <1>17, <2>4, <3>1 DEF Traffic, ReadsOnly, Vacant
    <3>4. Trigger' = Trigger \/ Trigger = "perhaps"
      <4>1. CASE InStep
        <5>1. Unloaded' /\ windowStatus' = 128 * dev.trigger
          BY <1>3, <1>8, <1>10, <2>4, <4>1 DEF Unloaded, Vacant, Fitting
        <5> QED BY <2>4, <3>1, <4>1, <5>1 DEF Trigger, Sure, Apart
      <4> QED BY <1>20, <2>4, <4>1
    <3>5. Trouble' <= Trouble
      <4>1. Trouble' = IF InStep' THEN WellServed ELSE IllServed
        BY <1>14, <3>1 DEF Trouble
      <4>2. Trouble = IF InStep THEN WellServed ELSE IllServed
        BY <2>4, <3>1 DEF Trouble
      <4> QED BY <1>8, <1>11, <1>14, <4>1, <4>2
    <3> QED BY <2>3, <3>2, <3>3, <3>4, <3>5, DriverKept, Zenon DEF WatchdogInv
  <2>5. CASE Access = "window_write"
    <3>1. InStep /\ Vacant /\ InStep'
      BY <1>8, <1>9, <1>11, <1>19, <2>5 DEF ReadSteps
    <3>2. /\ Access' = IF lastQuest = Illegal THEN "quest_read" ELSE "resp3"
          /\ lastQuest' = lastQuest /\ todo'["isr"] # <<>> /\ ~BeforeWrite'
      BY <1>3, <2>2, <2>5 DEF Following, Access, BeforeWrite
    <3>3. Synchronous'
      BY <1>1, <1>13, <1>16, <3>2 DEF Synchronous, Apart
    <3>4. Traffic'
      BY <1>1, <1>2, <1>3, <3>1, <3>2 DEF Traffic, Vacant, Apart
    <3>5. Trigger' = Trigger
      <4>1. shift = None /\ txbuf = None /\ ~Perhaps /\ ~Sure
        BY <1>2, <1>17, <2>5, <3>1 DEF Vacant, Perhaps, Sure, Unloaded
      <4>2. ~Sure' /\ ~Perhaps'
        BY <1>13, <3>2, <4>1 DEF Perhaps, Sure
      <4> QED BY <4>1, <4>2 DEF Trigger
    <3>6. Trouble' <= Trouble
      <4>1. Trouble = WellServed
        BY <2>5, <3>1, <1>2 DEF Trouble, Answering, Responses
      <4>2. CASE lastQuest = Illegal
        BY <3>1, <3>2, <4>1, <4>2 DEF Trouble, WellServed, Class
      <4>3. CASE lastQuest # Illegal
        <5>1. Byte' = 1
          BY <1>13, <3>2, <4>3 DEF Byte, ResponseIndex
        <5>2. Trouble' = IF Fair' THEN 0 ELSE Unfair'
          BY <3>1, <3>2, <4>3 DEF Trouble, Answering, Responses
        <5>3. Fair' <=> Class = "good"
          BY <3>2, <4>3, <5>1 DEF Fair, Class, Apart
        <5>4. Unfair' <= 5
          BY <5>1 DEF Unfair
        <5>5. Class # "good" => WellServed = 5
          BY <4>3 DEF WellServed, Class
        <5> QED BY <1>14, <4>1, <5>2, <5>3, <5>4, <5>5
      <4> QED BY <4>2, <4>3
    <3> QED BY <2>3, <3>3, <3>4, <3>5, <3>6, DriverKept, Zenon DEF WatchdogInv
  <2>6. CASE Access = "quest_read"
    <3>a. Access' = "none"
      BY <2>2, <2>6 DEF Following
    <3>b. lastQuest' = answer.data % 16
      BY <1>3, <1>19, <2>6
    <3>c. todo'["isr"] = <<>>
      BY <1>2, <2>2, <2>6, Zenon
    <3>1. Access' = "none" /\ todo'["isr"] = <<>> /\ lastQuest' = answer.data % 16 /\ ~BeforeWrite' /\ ~Answering'
          /\ Vacant
      BY <1>12, <2>6, <3>a, <3>b, <3>c DEF BeforeWrite, Answering, Responses
    <3>2. lastQuest' \in 0..15
      <4>1. answer.data \in 0..255
        BY DEF Frames
      <4> QED BY <3>1, <4>1, Modulo
    <3>3. Synchronous'
      BY <3>1, <3>2 DEF Synchronous, Illegal
    <3>4. Traffic'
      BY <1>1, <1>2, <3>1 DEF Traffic, Vacant, Apart, Answering
    <3>5. Trigger' = Trigger
      <4>1. shift = None /\ txbuf = None /\ ~Perhaps /\ ~Sure
        BY <1>2, <1>17, <2>6, <3>1 DEF Vacant, Perhaps, Sure
      <4>2. ~Sure' /\ ~Perhaps'
        BY <1>13, <3>1, <4>1 DEF Perhaps, Sure
      <4> QED BY <4>1, <4>2 DEF Trigger
    <3>6. Trouble' <= Trouble
      <4>1. Trouble = IF InStep THEN 1 ELSE 6
        BY <2>6 DEF Trouble
      <4>2. Trouble' = IllServed' /\ IllServed' \in {1, 2, 6}
        BY <1>13, <3>1 DEF Trouble, IllServed, Class
      <4>3. ASSUME InStep PROVE IllServed' = 1
        <5>1. answer.data = dev.quest
          BY <1>8, <2>6, <4>3 DEF Fitting
        <5>2. dev.quest \in 0..15
          BY <1>1, PmicAssumption DEF TypeOK
        <5>3. lastQuest' = dev.quest
          BY <3>1, <5>1, <5>2
        <5>4. dev.count = 1 /\ dev.right = TRUE
          BY <1>1, <1>2, <1>16, <2>6
        <5> QED BY <3>2, <5>3, <5>4 DEF IllServed, Class, Illegal, Apart
      <4> QED BY <4>1, <4>2, <4>3
    <3> QED BY <2>3, <3>3, <3>4, <3>5, <3>6, DriverKept, Zenon DEF WatchdogInv
  <2>7. CASE Access \in Responses \ {"resp0"}
    <3>1. InStep /\ Vacant /\ InStep' /\ Answering
      BY <1>8, <1>9, <1>11, <1>19, <2>7 DEF ReadSteps, Responses, Answering
    <3>a. Access' \in Responses /\ ResponseIndex[Access'] = ResponseIndex[Access] + 1
      BY <2>2, <2>7 DEF Following, Responses, ResponseIndex
    <3>b. lastQuest' = lastQuest
      BY <1>3, <1>19, <2>7 DEF Responses
    <3>c. todo'["isr"] # <<>>
      BY <3>a DEF Access, Responses
    <3>2. /\ Access' \in Responses /\ ResponseIndex[Access'] = ResponseIndex[Access] + 1
          /\ lastQuest' = lastQuest /\ todo'["isr"] # <<>> /\ ~BeforeWrite' /\ Answering'
      BY <3>a, <3>b, <3>c DEF BeforeWrite, Answering, Responses
    <3>3. Synchronous'
      BY <1>2, <1>13, <3>1, <3>2 DEF Synchronous
    <3>4. Traffic'
      BY <1>1, <1>2, <1>3, <3>1, <3>2 DEF Traffic, Vacant, Apart
    <3>5. Trigger' = Trigger
      <4>1. shift = None /\ txbuf = None /\ ~Perhaps /\ ~Sure
        BY <1>2, <1>17, <2>7, <3>1 DEF Vacant, Perhaps, Sure, Responses
      <4>2. ~Sure' /\ ~Perhaps'
        BY <1>13, <3>2, <4>1 DEF Perhaps, Sure, Responses
      <4> QED BY <4>1, <4>2 DEF Trigger
    <3>6. Trouble' <= Trouble
      <4>1. Through
        BY <1>8, <3>1 DEF InStep, Unloaded, Underway, Through
      <4>2. Byte' = Byte
        BY <1>13, <2>7, <3>2, <4>1 DEF Byte, ResponseIndex, Responses
      <4>3. Trouble' = Trouble
        BY <2>7, <3>1, <3>2, <4>2 DEF Trouble, Fair, Unfair, Apart, Responses
      <4> QED BY <1>1, <4>3, Kinds DEF Levels
    <3> QED BY <2>3, <3>3, <3>4, <3>5, <3>6, DriverKept, Zenon DEF WatchdogInv
  <2>8. CASE Access = "resp0"
    <3>1. InStep /\ Vacant /\ InStep' /\ Answering
      BY <1>8, <1>9, <1>11, <1>19, <2>8 DEF ReadSteps, Responses, Answering
    <3>a. Access' = "none"
      BY <2>2, <2>8 DEF Following
    <3>b. lastQuest' = Illegal
      BY <1>3, <1>19, <2>8
    <3>c. todo'["isr"] = <<>>
      <4>1. lastQuest # Illegal
        BY <1>2, <2>8 DEF Answering, Responses
      <4> QED BY <2>2, <2>8, <4>1, Zenon
    <3>2. Access' = "none" /\ todo'["isr"] = <<>> /\ lastQuest' = Illegal /\ ~BeforeWrite' /\ ~Answering'
      BY <3>a, <3>b, <3>c DEF BeforeWrite, Answering, Responses
    <3>3. Through
      BY <1>8, <3>1 DEF InStep, Unloaded, Underway, Through
    <3>4. Synchronous'
      BY <1>1, <2>8, <3>3 DEF Synchronous, Apart
    <3>5. Traffic'
      BY <1>1, <1>2, <3>1, <3>2 DEF Traffic, Vacant, Apart, Answering
    <3>6. Trigger' = Trigger
      <4>1. shift = None /\ txbuf = None /\ ~Perhaps /\ ~Sure
        BY <1>2, <1>17, <2>8, <3>1 DEF Vacant, Perhaps, Sure
      <4>2. ~Sure' /\ ~Perhaps'
        BY <1>13, <3>2, <4>1 DEF Perhaps, Sure
      <4> QED BY <4>1, <4>2 DEF Trigger
    <3>7. Trouble' <= Trouble
      <4>1. Byte = 5
        BY <2>8, <3>3 DEF Byte, ResponseIndex
      <4>2. ~Fair /\ Unfair = 2
        BY <1>1, <4>1 DEF Fair, Unfair, Numbers
      <4>3. Trouble = 2
        BY <2>8, <3>1, <4>2, <1>2 DEF Trouble
      <4>4. Trouble' = 2
        BY <1>13, <3>2 DEF Trouble, IllServed, Class
      <4> QED BY <4>3, <4>4
    <3> QED BY <2>3, <3>4, <3>5, <3>6, <3>7, DriverKept, Zenon DEF WatchdogInv
  <2> QED BY <1>2, <2>4, <2>5, <2>6, <2>7, <2>8
<1> QED BY <1>18, <1>19

(* The interrupt takes an answer.                                          *)
LEMMA IsrTake ==
  ASSUME InService, WatchdogInv', Take("isr")
  PROVE  Running'
<1>1. rxbuf \in Frames /\ intFlag
  BY FramesSound DEF InService, Shared, Take, TypeOK
<1>2. /\ todo["isr"] # <<>> /\ pc["isr"] # "load" /\ Complete("isr", rxbuf) /\ Apart /\ intFlag' = FALSE
      /\ shift' = shift /\ txbuf' = txbuf /\ rxbuf' = rxbuf
  BY DEF Take, Runs, Busy, clock, history, Apart
<1> QED BY <1>1, <1>2, IsrComplete

(* The interrupt gives up.                                                 *)
LEMMA IsrTimeOut ==
  ASSUME InService, WatchdogInv', TimeOut("isr")
  PROVE  Running'
<1>1. AllOnes \in Frames
  BY DEF AllOnes, Frame, Frames
<1>2. /\ todo["isr"] # <<>> /\ pc["isr"] # "load" /\ Complete("isr", AllOnes) /\ Apart /\ intFlag' = FALSE
      /\ shift' = shift /\ txbuf' = txbuf /\ rxbuf' = rxbuf /\ ~intFlag /\ Vacant
  BY DEF TimeOut, Runs, Busy, clock, history, Apart, Vacant
<1> QED BY <1>1, <1>2, IsrComplete

\* The main loop runs.
MainRuns == todo["main"] # <<>> /\ todo["isr"] = <<>> /\ masked = 0

(* While the main loop runs the interrupt is at none of its accesses.      *)
LEMMA MainAlone ==
  ASSUME InService, MainRuns
  PROVE  /\ pc["isr"] = "load" /\ Access = "none" /\ ~Answering /\ ~BeforeWrite
         /\ Trigger = IF Coming \/ (shift # None /\ shift.step = "window_write" /\ shift.data # dev.trigger) THEN "sure"
                      ELSE IF (shift # None /\ shift.step = "window_write") \/ (txbuf # None /\ txbuf.step = "window_write")
                      THEN "perhaps" ELSE "no"
         /\ Trouble = IF Coming THEN WellServed ELSE IllServed
         /\ Head(todo["main"]) \in Named \ {"quest_read", "resp0"}
         /\ todo["main"] \in Seq(Steps)
<1>1. pc["isr"] = "load" /\ Access = "none"
  BY DEF InService, Shared, States, MainRuns, Access
<1>2. ~Answering /\ ~BeforeWrite
  BY <1>1 DEF Answering, BeforeWrite, Responses
<1>3. Trigger = IF Coming \/ (shift # None /\ shift.step = "window_write" /\ shift.data # dev.trigger) THEN "sure"
                ELSE IF (shift # None /\ shift.step = "window_write") \/ (txbuf # None /\ txbuf.step = "window_write")
                THEN "perhaps" ELSE "no"
  BY <1>1, <1>2 DEF Trigger, Sure, Perhaps
<1>4. Trouble = IF Coming THEN WellServed ELSE IllServed
  BY DEF Trouble, MainRuns
<1>5. todo["main"] \in Seq(Steps) /\ dev.state = "normal" /\ Served /\ todo["main"] # <<>>
  BY FramesSound DEF TypeOK, InService, WatchdogInv, MainRuns
<1>6. Head(todo["main"]) \in Named \ {"quest_read", "resp0"}
  <2>1. CASE Serving
    <3>1. Head(todo["main"]) \in {"status"}
      BY <1>5, <2>1, HeadTailProperties DEF Serving
    <3> QED BY <3>1 DEF Named
  <2>2. ASSUME NEW k \in 1..33, SettingUp(k) PROVE Head(todo["main"]) \in Named \ {"quest_read", "resp0"}
    <3>1. k = 32 \/ k = 33
      BY <1>5, <2>2 DEF SettingUp
    <3>2. Head(todo["main"]) = SetupSteps[k]
      <4>1. Head(todo["main"]) = todo["main"][1] /\ 1 \in 1..Len(todo["main"])
        BY <1>5
      <4>2. k + 1 - 1 = k
        OBVIOUS
      <4> QED BY <2>2, <4>1, <4>2 DEF SettingUp, AtSetup
    <3> QED BY <3>1, <3>2, SetupList DEF Named
  <2> QED BY <1>5, <2>1, <2>2, Zenon DEF Served
<1> QED BY <1>1, <1>2, <1>3, <1>4, <1>5, <1>6, Zenon

(* The main loop hands over a request: a read, into an empty module.       *)
LEMMA MainLoad ==
  ASSUME InService, WatchdogInv', Load("main")
  PROVE  Running'
<1>1. TypeOK /\ Numbers /\ Queued /\ Traffic /\ Synchronous
  BY FramesSound
<1>2. /\ MainRuns /\ pc["main"] = "load"
      /\ pc' = [pc EXCEPT !["main"] = "await"]
      /\ UNCHANGED <<todo, windowStatus, lastQuest, rxbuf, intFlag>>
      /\ Apart
  BY DEF Load, Runs, Busy, clock, history, Apart, MainRuns
<1>3. shift = None /\ txbuf = None /\ ~intFlag /\ pc["isr"] = "load"
  BY <1>2, MainAlone DEF InService, Shared
<1>4. /\ Access = "none" /\ ~Answering /\ ~BeforeWrite
      /\ Trigger = IF Coming THEN "sure" ELSE "no"
      /\ Trouble = IF Coming THEN WellServed ELSE IllServed
  BY <1>2, <1>3, MainAlone
<1> DEFINE R == Request(Head(todo["main"]))
<1>5. Head(todo["main"]) \in {"status", "devstat"}
  BY <1>1, <1>2 DEF Queued, MainRuns
<1>6. R.op = "read" /\ R.step = Head(todo["main"])
  BY <1>5 DEF Request, Frame, ReadSteps
<1>7. shift' = R /\ txbuf' = None
  BY <1>2, <1>3 DEF Load
<1> HIDE DEF R
<1>8. /\ Access' = "none" /\ ~Answering' /\ ~BeforeWrite' /\ Coming' = Coming
      /\ Class' = Class /\ IllServed' = IllServed /\ WellServed' = WellServed
  BY <1>2, <1>4 DEF Access, Answering, BeforeWrite, Responses, Coming, Apart, Class, IllServed, WellServed
<1>9. Traffic'
  BY <1>3, <1>6, <1>7, <1>8, <1>2 DEF Traffic, ReadsOnly
<1>10. Synchronous'
  BY <1>1, <1>2, <1>4, <1>8 DEF Synchronous, Apart
<1>11. Queued'
  BY <1>1, <1>2 DEF Queued, Apart, TypeOK
<1>12. Trigger' = Trigger
  BY <1>4, <1>5, <1>6, <1>7, <1>8 DEF Trigger, Sure, Perhaps
<1>13. Trouble' = Trouble
  BY <1>2, <1>4, <1>8 DEF Trouble, MainRuns
<1>14. Trouble' <= Trouble /\ TypeOK'
  BY <1>1, <1>13, Kinds DEF Levels, WatchdogInv
<1> QED BY <1>2, <1>9, <1>10, <1>11, <1>12, <1>14, DriverKept, Zenon

(* The main loop sees the flag.                                            *)
LEMMA MainSeeFlag ==
  ASSUME InService, WatchdogInv', SeeFlag("main")
  PROVE  Running'
<1>1. TypeOK /\ Numbers /\ Queued /\ Traffic /\ Synchronous
  BY FramesSound
<1>2. /\ MainRuns
      /\ pc' = [pc EXCEPT !["main"] = "take"]
      /\ UNCHANGED <<todo, windowStatus, lastQuest, shift, txbuf>>
      /\ UNCHANGED <<rxbuf, intFlag>>
      /\ Apart
  BY DEF SeeFlag, Runs, Busy, clock, history, Apart, MainRuns, spi
<1>3. Access = "none" /\ ~Answering /\ ~BeforeWrite
  BY <1>2, MainAlone
<1>4. /\ Access' = "none" /\ ~Answering' /\ ~BeforeWrite' /\ Coming' = Coming
      /\ Class' = Class /\ IllServed' = IllServed /\ WellServed' = WellServed
  BY <1>2, <1>3 DEF Access, Answering, BeforeWrite, Responses, Coming, Apart, Class, IllServed, WellServed
<1>5. Traffic'
  BY <1>1, <1>2, <1>3, <1>4 DEF Traffic, ReadsOnly, Vacant, Apart
<1>6. Synchronous'
  BY <1>1, <1>2, <1>3, <1>4 DEF Synchronous, Apart
<1>7. Queued'
  BY <1>1, <1>2 DEF Queued, Apart, TypeOK
<1>8. Trigger' = Trigger
  BY <1>2, <1>3, <1>4 DEF Trigger, Sure, Perhaps, Apart
<1>9. Trouble' = Trouble
  BY <1>2, <1>4 DEF Trouble, MainRuns
<1>10. Trouble' <= Trouble /\ TypeOK'
  BY <1>1, <1>9, Kinds DEF Levels, WatchdogInv
<1> QED BY <1>2, <1>5, <1>6, <1>7, <1>8, <1>10, DriverKept, Zenon

(* The main loop goes on with an answer, or without one.                   *)
LEMMA MainComplete ==
  ASSUME InService, WatchdogInv', MainRuns, NEW answer, Complete("main", answer), Apart,
         intFlag' = FALSE, shift' = shift, txbuf' = txbuf, rxbuf' = rxbuf
  PROVE  Running'
<1> DEFINE step == Head(todo["main"])
           ok == Accepted(Request(step), answer)
<1>1. TypeOK /\ Numbers /\ Queued /\ Traffic /\ Synchronous
  BY FramesSound
<1>2. /\ Access = "none" /\ ~Answering /\ ~BeforeWrite
      /\ step \notin {"quest_read", "resp0"} /\ todo["main"] \in Seq(Steps)
  BY MainAlone
<1>3. /\ todo'["main"] = <<>> \/ todo'["main"] = Tail(todo["main"])
      /\ todo'["isr"] = <<>>
      /\ lastQuest' = lastQuest
  BY <1>1, <1>2 DEF Complete, TypeOK, MainRuns
<1>4. /\ Access' = "none" /\ ~Answering' /\ ~BeforeWrite' /\ Coming' = Coming
      /\ Class' = Class /\ IllServed' = IllServed /\ WellServed' = WellServed
  BY <1>2, <1>3 DEF Access, Answering, BeforeWrite, Responses, Coming, Apart, Class, IllServed, WellServed, MainRuns
<1>5. Traffic'
  BY <1>1, <1>2, <1>4 DEF Traffic, ReadsOnly, Vacant, Apart
<1>6. Synchronous'
  BY <1>1, <1>2, <1>3, <1>4 DEF Synchronous, Apart
<1>7. Queued'
  <2>1. todo'["isr"] \notin Asks /\ todo'["isr"] \notin Replies
    BY <1>3, AskOrder, ReplyOrder
  <2>2. masked' = 0
    BY DEF Apart, MainRuns
  <2>3. ASSUME todo'["main"] # <<>>
        PROVE  Tail(todo'["main"]) \in Seq({"status", "devstat"}) /\ Head(todo'["main"]) \in {"status", "devstat"}
    <3> DEFINE s == Tail(todo["main"])
    <3>1. s \in Seq({"status", "devstat"}) /\ todo'["main"] = s /\ s # <<>>
      BY <1>1, <1>3, <2>3 DEF Queued, MainRuns
    <3> HIDE DEF s
    <3> QED BY <3>1, HeadTailProperties
  <2> QED BY <1>3, <2>1, <2>2, <2>3 DEF Queued
<1>8. Trigger' = Trigger
  BY <1>2, <1>4 DEF Trigger, Sure, Perhaps, Apart
<1>9. Trouble' = Trouble
  BY <1>3, <1>4 DEF Trouble, MainRuns
<1>10. Trouble' <= Trouble /\ TypeOK'
  BY <1>1, <1>9, Kinds DEF Levels, WatchdogInv
<1> QED BY <1>5, <1>6, <1>7, <1>8, <1>10, DriverKept, Zenon

(* The main loop takes an answer.                                          *)
LEMMA MainTake ==
  ASSUME InService, WatchdogInv', Take("main")
  PROVE  Running'
<1>1. /\ MainRuns /\ Complete("main", rxbuf) /\ Apart /\ intFlag' = FALSE
      /\ shift' = shift /\ txbuf' = txbuf /\ rxbuf' = rxbuf
  BY DEF Take, Runs, Busy, clock, history, Apart, MainRuns
<1> QED BY <1>1, MainComplete

(* The main loop gives up.                                                 *)
LEMMA MainTimeOut ==
  ASSUME InService, WatchdogInv', TimeOut("main")
  PROVE  Running'
<1>1. /\ MainRuns /\ Complete("main", AllOnes) /\ Apart /\ intFlag' = FALSE
      /\ shift' = shift /\ txbuf' = txbuf /\ rxbuf' = rxbuf
  BY DEF TimeOut, Runs, Busy, clock, history, Apart, MainRuns
<1> QED BY <1>1, MainComplete

\* What a trigger and the trouble may be.
Sorts ==
    /\ Trigger \in Triggers /\ Trouble \in Levels
    /\ WellServed \in {0, 1, 5} /\ IllServed = WellServed + 1

(* Also after a step.                                                      *)
LEMMA Sorted == (TypeOK => Numbers /\ Sorts) /\ (TypeOK' => Numbers' /\ Sorts')
<1>1. TypeOK => Numbers /\ Sorts
  BY Counters, Kinds DEF Sorts
<1> QED BY <1>1, PTL

(* The log dump begins.                                                    *)
LEMMA RunningReadStatus ==
  ASSUME InService, WatchdogInv', ReadStatusRegisters
  PROVE  Running'
<1>1. TypeOK /\ Numbers /\ Queued /\ Traffic /\ Synchronous
  BY FramesSound
<1>2. /\ UNCHANGED <<pc, windowStatus, lastQuest, shift, txbuf>>
      /\ UNCHANGED <<rxbuf, intFlag>>
      /\ Apart /\ todo["isr"] = <<>> /\ todo["main"] = <<>> /\ masked = 0
      /\ todo' = [todo EXCEPT !["main"] = StatusSteps]
  BY DEF ReadStatusRegisters, spi, history, Apart, Idle, Busy
<1>3. todo'["isr"] = <<>> /\ todo'["main"] = StatusSteps
  BY <1>1, <1>2 DEF TypeOK
<1>4. Access = "none" /\ ~Answering /\ ~BeforeWrite
  BY <1>2 DEF Access, Answering, BeforeWrite, Responses
<1>5. /\ Access' = "none" /\ ~Answering' /\ ~BeforeWrite' /\ Coming' = Coming
      /\ Class' = Class /\ IllServed' = IllServed /\ WellServed' = WellServed
  BY <1>2, <1>3 DEF Access, Answering, BeforeWrite, Responses, Coming, Apart, Class, IllServed, WellServed
<1>6. Traffic'
  BY <1>1, <1>2, <1>4, <1>5 DEF Traffic, ReadsOnly, Vacant, Apart
<1>7. Synchronous'
  BY <1>1, <1>2, <1>4, <1>5 DEF Synchronous, Apart
<1>8. Queued'
  <2>1. todo'["isr"] \notin Asks /\ todo'["isr"] \notin Replies /\ masked' = 0
    BY <1>2, <1>3, AskOrder, ReplyOrder DEF Apart
  <2>2. ASSUME StatusSteps # <<>>
        PROVE  Tail(StatusSteps) \in Seq({"status", "devstat"}) /\ Head(StatusSteps) \in {"status", "devstat"}
    <3>1. StatusReads \in Nat /\ "status" \in {"status", "devstat"}
      BY PmicAssumption
    <3>2. StatusSteps \in Seq({"status", "devstat"})
      BY <3>1, TimesSeq, Zenon DEF StatusSteps
    <3> QED BY <2>2, <3>2, HeadTailProperties
  <2> QED BY <1>3, <2>1, <2>2 DEF Queued
<1>9. Trigger' = Trigger
  BY <1>2, <1>4, <1>5 DEF Trigger, Sure, Perhaps, Apart
<1>10. Trouble' = Trouble
  BY <1>2, <1>3, <1>5 DEF Trouble
<1>11. Trouble' <= Trouble /\ TypeOK'
  BY <1>1, <1>10, Kinds DEF Levels, WatchdogInv
<1> QED BY <1>2, <1>6, <1>7, <1>8, <1>9, <1>11, DriverKept, Zenon

(* Nothing happens.                                                        *)
LEMMA RunningStutter ==
  ASSUME InService, UNCHANGED vars
  PROVE  Running'
<1>1. /\ UNCHANGED <<todo, pc, windowStatus, lastQuest, shift, txbuf>>
      /\ UNCHANGED <<rxbuf, intFlag, dev, phase, timer>>
      /\ UNCHANGED <<masked, dumped, faults, overlaps, saves, torn>>
  BY Zenon DEF vars, spi, driver, clock, history
<1>2. Access' = Access /\ Answering' = Answering /\ BeforeWrite' = BeforeWrite /\ Coming' = Coming
  BY <1>1 DEF Access, Answering, BeforeWrite, Coming
<1>3. Fitting' = Fitting /\ Vacant' = Vacant
  BY <1>1, <1>2 DEF Fitting, Vacant, Request, Frame
<1>4. Unloaded' = Unloaded /\ Through' = Through /\ Underway' = Underway
  BY <1>1, <1>2, <1>3 DEF Unloaded, Underway, Through, Request, Frame
<1>5. InStep' = InStep /\ Astray' = Astray
  BY <1>1, <1>3, <1>4 DEF InStep, Astray
<1>6. Traffic' /\ Queued' /\ Synchronous'
  BY <1>1, <1>2, <1>3, <1>4, <1>5 DEF InService, Running, Traffic, Queued, Synchronous, ReadsOnly
<1>7. Trigger' = Trigger
  BY <1>1, <1>2, <1>4, <1>5 DEF Trigger, Sure, Perhaps
<1>8. WellServed' = WellServed /\ IllServed' = IllServed
  BY <1>1 DEF WellServed, IllServed, Class
<1>9. Trouble' = Trouble
  <2>1. Byte' = Byte
    BY <1>2, <1>4 DEF Byte
  <2> QED BY <1>1, <1>2, <1>5, <1>8, <2>1 DEF Trouble, Fair, Unfair
<1>10. WindowBounded' /\ QuestBounded'
  BY <1>1, <1>7, <1>9, Zenon DEF InService, Running, WindowBounded, QuestBounded, WindowDue, QuestDue,
     WindowBudget, QuestBudget, WindowTable, QuestTable, IdleTable, WindowCost, QuestCost
<1> QED BY <1>1, <1>6, <1>10, Zenon DEF InService, Running

\* A step of a disturbance pays for whatever it leaves.
LEMMA Disturbed ==
  ASSUME InService, TypeOK', masked' = 0,
         faults' + overlaps' = faults + overlaps + 1, saves' = saves
  PROVE  /\ dev'.windowErrors <= dev.windowErrors => WindowBounded'
         /\ dev'.functionalErrors <= dev.functionalErrors => QuestBounded'
<1>1. Numbers /\ Numbers' /\ WindowBounded /\ QuestBounded /\ Sorts /\ Sorts'
  BY FramesSound, Sorted
<1>2. WindowBudget' = WindowBudget + 4 /\ QuestBudget' = QuestBudget + 8
      /\ WindowBudget \in Nat /\ QuestBudget \in Nat
  BY <1>1, BudgetsLater, Budgets
<1>3. dev.windowErrors <= WindowBudget /\ dev.functionalErrors <= QuestBudget
  <2>0. dev.age + masked \in Nat /\ dev.beat + masked \in Nat /\ phase + masked \in Nat
    BY <1>1 DEF Numbers
  <2>1. WindowDue(Trigger, dev.age + masked, phase + masked) \in Nat
    BY <1>1, <2>0, WindowDues, Zenon DEF Sorts
  <2>2. QuestDue(Trouble, dev.beat + masked, phase + masked) \in Nat
    BY <1>1, <2>0, QuestDues, Zenon DEF Sorts
  <2> QED BY <1>1, <1>2, <2>1, <2>2 DEF WindowBounded, QuestBounded, Numbers
<1>4. PICK t \in Triggers, l \in Levels : t = Trigger' /\ l = Trouble'
  BY <1>1, Zenon DEF Sorts
<1>5. PICK a \in 0..2, b \in 0..4, f \in {0, 1} : a = dev'.age /\ b = dev'.beat /\ f = phase'
  BY <1>1, Zenon DEF Numbers
<1>6. dev'.age + masked' = a /\ dev'.beat + masked' = b /\ phase' + masked' = f
  <2>1. a + 0 = a /\ b + 0 = b /\ f + 0 = f
    OBVIOUS
  <2> QED BY <1>5, <2>1, Zenon
<1>7. WindowDue(t, a, f) \in 0..4
  BY WindowNow, WindowTables
<1>8. QuestDue(l, b, f) \in 0..8
  BY QuestNow, QuestTables
<1>9. dev'.windowErrors <= dev.windowErrors => dev'.windowErrors + WindowDue(t, a, f) <= WindowBudget'
  BY <1>1, <1>2, <1>3, <1>7 DEF Numbers
<1>10. dev'.functionalErrors <= dev.functionalErrors => dev'.functionalErrors + QuestDue(l, b, f) <= QuestBudget'
  BY <1>1, <1>2, <1>3, <1>8 DEF Numbers
<1> QED BY <1>4, <1>6, <1>9, <1>10, Zenon DEF WindowBounded, QuestBounded

(* A strobe with an answer.                                                *)
LEMMA AnswerList ==
  StrobeAnswerSteps = <<"window_read", "window_write", "resp3", "resp2", "resp1", "resp0">>
<1> DEFINE front == <<"window_read", "window_write">>
           whole == <<"window_read", "window_write", "resp3", "resp2", "resp1", "resp0">>
<1>1. front \in Seq(Answers) /\ AnswerSteps \in Seq(Answers) /\ whole \in Seq(Answers)
      /\ Len(front) = 2 /\ Len(AnswerSteps) = 4 /\ Len(whole) = 6
  BY DEF AnswerSteps, Answers
<1>2. front[1] = "window_read" /\ front[2] = "window_write"
      /\ AnswerSteps[1] = "resp3" /\ AnswerSteps[2] = "resp2" /\ AnswerSteps[3] = "resp1" /\ AnswerSteps[4] = "resp0"
  BY DEF AnswerSteps
<1>3. whole[1] = "window_read" /\ whole[2] = "window_write"
      /\ whole[3] = "resp3" /\ whole[4] = "resp2" /\ whole[5] = "resp1" /\ whole[6] = "resp0"
  OBVIOUS
<1>4. StrobeAnswerSteps = front \o AnswerSteps
  BY DEF StrobeAnswerSteps
<1> HIDE DEF front, whole
<1>5. /\ StrobeAnswerSteps \in Seq(Answers) /\ Len(StrobeAnswerSteps) = Len(front) + Len(AnswerSteps)
      /\ \A i \in Int : 1 <= i /\ i <= Len(front) => StrobeAnswerSteps[i] = front[i]
      /\ \A i \in Int : Len(front) < i /\ i <= Len(front) + Len(AnswerSteps) =>
             StrobeAnswerSteps[i] = AnswerSteps[i - Len(front)]
  BY <1>1, <1>4, Joined, Zenon
<1> HIDE DEF StrobeAnswerSteps
<1>6. /\ StrobeAnswerSteps \in Seq(Answers) /\ Len(StrobeAnswerSteps) = 6
      /\ StrobeAnswerSteps[1] = front[1] /\ StrobeAnswerSteps[2] = front[2]
      /\ StrobeAnswerSteps[3] = AnswerSteps[1] /\ StrobeAnswerSteps[4] = AnswerSteps[2]
      /\ StrobeAnswerSteps[5] = AnswerSteps[3] /\ StrobeAnswerSteps[6] = AnswerSteps[4]
  BY <1>1, <1>5
<1>7. \A i \in 1..6 : StrobeAnswerSteps[i] = whole[i]
  <2> SUFFICES ASSUME NEW i \in 1..6 PROVE StrobeAnswerSteps[i] = whole[i]
    OBVIOUS
  <2>1. i = 1 \/ i = 2 \/ i = 3 \/ i = 4 \/ i = 5 \/ i = 6
    OBVIOUS
  <2> QED BY <1>2, <1>3, <1>6, <2>1, Zenon
<1>8. StrobeAnswerSteps = whole
  BY <1>1, <1>6, <1>7, SeqEqual
<1> QED BY <1>8 DEF whole

(* The timer interrupt begins.                                             *)
LEMMA RunningStrobe ==
  ASSUME InService, WatchdogInv', Strobe
  PROVE  Running'
<1>1. TypeOK /\ Numbers /\ Queued /\ Traffic /\ Synchronous /\ TypeOK'
      /\ dev.state = "normal" /\ faults + overlaps <= MaxDisturbed
  BY FramesSound DEF WatchdogInv
<1>2. /\ UNCHANGED <<pc, windowStatus, lastQuest, shift, txbuf>>
      /\ UNCHANGED <<rxbuf, intFlag, dev, phase, masked>>
      /\ UNCHANGED <<faults, saves>>
      /\ timer' = FALSE /\ timer = TRUE /\ masked = 0 /\ todo["isr"] = <<>>
  BY <1>1, Zenon DEF Strobe, spi, Busy, TypeOK
<1>3. pc["isr"] = "load" /\ Access = "none" /\ ~Answering /\ Coming
  BY <1>2 DEF InService, Shared, States, Access, Answering, Responses, Coming
<1>4. todo'["main"] = todo["main"] /\ todo'["isr"] \in Asks \cup Replies /\ Access' = "window_read"
      /\ (todo'["isr"] \in Asks <=> lastQuest = Illegal) /\ todo'["isr"] # <<>>
  <2>1. /\ StrobeReadSteps = <<"window_read", "window_write", "quest_read">>
        /\ StrobeAnswerSteps = <<"window_read", "window_write", "resp3", "resp2", "resp1", "resp0">>
    BY AnswerList DEF StrobeReadSteps
  <2>2. /\ StrobeReadSteps \in Asks /\ Head(StrobeReadSteps) = "window_read"
        /\ StrobeAnswerSteps \in Replies /\ Head(StrobeAnswerSteps) = "window_read"
    BY <2>1 DEF Asks, Replies
  <2>3. StrobeAnswerSteps \notin Asks /\ StrobeReadSteps # <<>> /\ StrobeAnswerSteps # <<>>
    BY <2>2, AskOrder, ReplyOrder, Zenon
  <2>4. todo'["main"] = todo["main"] /\ todo'["isr"] = IF lastQuest = Illegal THEN StrobeReadSteps ELSE StrobeAnswerSteps
    BY <1>1 DEF Strobe, TypeOK
  <2> QED BY <2>2, <2>3, <2>4 DEF Access
<1>5. ~Answering' /\ ~Coming' /\ ~Through' /\ BeforeWrite' /\ ReadsOnly
  BY <1>1, <1>2, <1>3, <1>4 DEF Answering, Responses, Coming, Through, BeforeWrite, Traffic
<1>6. Queued'
  <2>1. todo'["isr"] \in Replies => lastQuest' # Illegal
    BY <1>2, <1>4, ReplyOrder
  <2> QED BY <1>1, <1>2, <1>4, <2>1 DEF Queued
<1>7. Traffic'
  BY <1>1, <1>2, <1>3, <1>4, <1>5 DEF Traffic, ReadsOnly, Vacant
<1>8. Synchronous'
  BY <1>1, <1>2, <1>3, <1>5 DEF Synchronous
<1>9. CASE Busy("main") /\ pc["main"] # "load"
  <2>1. overlaps' = overlaps + 1 /\ faults + overlaps < MaxDisturbed
    BY <1>9 DEF Strobe
  <2>2. faults' + overlaps' = faults + overlaps + 1 /\ faults' + overlaps' <= MaxDisturbed
    BY <1>1, <1>2, <2>1, PmicAssumption DEF Numbers
  <2>3. dev'.windowErrors <= dev.windowErrors /\ dev'.functionalErrors <= dev.functionalErrors
    BY <1>1, <1>2 DEF Numbers
  <2>4. WindowBounded' /\ QuestBounded'
    BY <1>1, <1>2, <2>2, <2>3, Disturbed
  <2> QED BY <1>1, <1>2, <1>6, <1>7, <1>8, <2>2, <2>4, Zenon DEF Running
<1>10. CASE ~(Busy("main") /\ pc["main"] # "load")
  <2>1. overlaps' = overlaps
    BY <1>10 DEF Strobe
  <2>2. pc["main"] = "load"
    BY <1>10 DEF InService, Shared, Busy
  <2>3. Unloaded'
    BY <1>2, <1>3, <2>2 DEF InService, Shared, Unloaded, Vacant
  <2>4. InStep'
    BY <2>3 DEF InStep
  <2>5. Trigger' = Trigger
    BY <1>3, <1>4, <2>4 DEF Trigger, Sure
  <2>6. Trouble' = Trouble
    <3>1. WellServed' = WellServed
      BY <1>2 DEF WellServed, Class
    <3>2. Trouble = WellServed
      BY <1>2, <1>3 DEF Trouble
    <3>3. Trouble' = WellServed'
      BY <1>4, <1>5, <2>4 DEF Trouble
    <3> QED BY <3>1, <3>2, <3>3
  <2>7. WindowBounded' /\ QuestBounded'
    <3>1. Numbers' /\ WindowBounded /\ QuestBounded
      BY <1>1, Sorted, FramesSound
    <3>2. WindowBudget' = WindowBudget /\ QuestBudget' = QuestBudget
      BY <1>1, <1>2, <2>1, <3>1, BudgetsLater
    <3>3. dev'.windowErrors <= dev.windowErrors /\ dev'.functionalErrors <= dev.functionalErrors
          /\ dev'.age = dev.age /\ dev'.beat = dev.beat /\ Trouble' <= Trouble
      BY <1>1, <1>2, <2>6, Kinds DEF Numbers, Levels
    <3>4. WindowBounded'
      BY <1>1, <1>2, <2>5, <3>1, <3>2, <3>3, WindowSteady, Zenon
    <3>5. QuestBounded'
      BY <1>1, <1>2, <3>1, <3>2, <3>3, QuestSteady, Zenon
    <3> QED BY <3>4, <3>5
  <2> QED BY <1>1, <1>2, <1>6, <1>7, <1>8, <2>1, <2>7, Zenon DEF Running
<1> QED BY <1>9, <1>10

(* With interrupts off from the time the module is idle.                   *)
LEMMA IdleModule ==
  ASSUME InService, todo["main"] = <<>>, todo["isr"] = <<>>
  PROVE  /\ Vacant /\ ~intFlag /\ Access = "none" /\ ~Answering /\ ~BeforeWrite
         /\ Trigger = IF Coming THEN "sure" ELSE "no"
         /\ Trouble = IF Coming THEN WellServed ELSE IllServed
<1>1. Vacant /\ ~intFlag
  BY DEF InService, Shared, States, Vacant
<1>2. Access = "none" /\ ~Answering /\ ~BeforeWrite
  BY DEF Access, Answering, BeforeWrite, Responses
<1>3. Trigger = IF Coming THEN "sure" ELSE "no"
  BY <1>1, <1>2 DEF Trigger, Sure, Perhaps, Vacant
<1>4. Trouble = IF Coming THEN WellServed ELSE IllServed
  BY DEF Trouble
<1> QED BY <1>1, <1>2, <1>3, <1>4

(* What is left of that by a step that leaves the driver and the module    *)
(* alone.                                                                  *)
LEMMA IdleKept ==
  ASSUME InService, todo["main"] = <<>>, todo["isr"] = <<>>,
         UNCHANGED <<todo, pc, lastQuest, shift, txbuf, intFlag>>,
         dev'.quest = dev.quest, dev'.count = dev.count, dev'.right = dev.right
  PROVE  /\ Queued' /\ Traffic' /\ Synchronous'
         /\ Trigger' = (IF Coming' THEN "sure" ELSE "no")
         /\ Trouble' = (IF Coming' THEN WellServed ELSE IllServed)
<1>1. Vacant /\ ~intFlag /\ Access = "none" /\ ~Answering /\ ~BeforeWrite
  BY IdleModule
<1>2. Queued /\ Traffic /\ Synchronous
  BY FramesSound
<1>3. shift' = None /\ txbuf' = None /\ ~intFlag' /\ todo'["main"] = <<>> /\ todo'["isr"] = <<>>
  BY <1>1 DEF Vacant
<1>4. Access' = "none" /\ ~Answering' /\ ~BeforeWrite'
  BY <1>3 DEF Access, Answering, BeforeWrite, Responses
<1>5. Queued'
  <2>1. <<>> \notin Asks /\ <<>> \notin Replies
    BY AskOrder, ReplyOrder
  <2> QED BY <1>3, <2>1 DEF Queued
<1>6. Traffic'
  BY <1>3, <1>4 DEF Traffic, ReadsOnly
<1>7. Synchronous'
  BY <1>1, <1>2, <1>4 DEF Synchronous
<1>8. Trigger' = (IF Coming' THEN "sure" ELSE "no")
  BY <1>3, <1>4 DEF Trigger, Sure, Perhaps
<1>9. WellServed' = WellServed /\ IllServed' = IllServed
  BY DEF WellServed, IllServed, Class
<1>10. Trouble' = (IF Coming' THEN WellServed ELSE IllServed)
  BY <1>3, <1>9 DEF Trouble
<1> QED BY <1>5, <1>6, <1>7, <1>8, <1>10

(* Interrupts masked by a save.                                            *)
LEMMA RunningSave ==
  ASSUME InService, WatchdogInv', Save
  PROVE  Running'
<1>1. TypeOK /\ Numbers /\ TypeOK' /\ Numbers' /\ Sorts /\ WindowBounded /\ QuestBounded
      /\ dev.state = "normal" /\ faults + overlaps <= MaxDisturbed
  BY FramesSound, Sorted DEF WatchdogInv
<1>2. /\ UNCHANGED <<todo, pc, windowStatus, lastQuest, shift, txbuf>>
      /\ UNCHANGED <<rxbuf, intFlag, dev, phase, timer>>
      /\ UNCHANGED <<faults, overlaps>>
      /\ todo["main"] = <<>> /\ todo["isr"] = <<>> /\ masked = 0 /\ masked' = SaveUnits /\ saves' = saves + 1
  BY Zenon DEF Save, spi, driver, Idle, Busy
<1>3. /\ Queued' /\ Traffic' /\ Synchronous'
      /\ Trigger' = (IF Coming' THEN "sure" ELSE "no")
      /\ Trouble' = (IF Coming' THEN WellServed ELSE IllServed)
  BY <1>2, IdleKept
<1>4. /\ Trigger = IF Coming THEN "sure" ELSE "no"
      /\ Trouble = IF Coming THEN WellServed ELSE IllServed
  BY <1>2, IdleModule
<1>5. PICK S \in Nat, a \in 0..2, b \in 0..4, f \in {0, 1} : S = SaveUnits /\ a = dev.age /\ b = dev.beat /\ f = phase
  BY <1>1, PmicAssumption, Zenon DEF Numbers
<1>6. /\ Coming <=> timer = TRUE
      /\ Coming' <=> timer = TRUE \/ f + S >= 2
  <2>1. f + 0 = f /\ ~(f >= 2)
    OBVIOUS
  <2>2. Coming <=> timer = TRUE \/ phase + masked >= 2
    BY <1>2, Zenon DEF Coming
  <2>3. Coming' <=> timer = TRUE \/ phase' + masked' >= 2
    BY <1>2, Zenon DEF Coming
  <2> QED BY <1>2, <1>5, <2>1, <2>2, <2>3, Zenon
<1>7. WindowBudget' = WindowBudget + WindowCost /\ QuestBudget' = QuestBudget + QuestCost
      /\ WindowBudget \in Nat /\ QuestBudget \in Nat
  BY <1>1, <1>2, BudgetsLater, Budgets
<1>8. /\ dev.age + masked = a /\ dev.beat + masked = b /\ phase + masked = f
      /\ dev'.age + masked' = a + S /\ dev'.beat + masked' = b + S /\ phase' + masked' = f + S
  <2>1. a + 0 = a /\ b + 0 = b /\ f + 0 = f
    OBVIOUS
  <2> QED BY <1>2, <1>5, <2>1, Zenon
<1>a. a \in Nat /\ b \in Nat /\ f \in Nat /\ a + S \in Nat /\ b + S \in Nat /\ f + S \in Nat
  OBVIOUS
<1>9. WindowBounded'
  <2>1. PICK t \in Triggers, u \in Triggers : t = Trigger /\ u = Trigger'
    <3>1. "sure" \in Triggers /\ "no" \in Triggers
      BY DEF Triggers
    <3> QED BY <1>1, <1>3, <3>1, Zenon DEF Sorts
  <2>2. dev.windowErrors + WindowDue(t, a, f) <= WindowBudget
    BY <1>1, <1>8, <2>1, Zenon DEF WindowBounded
  <2>3. WindowDue(u, a + S, f + S) <= WindowDue(t, a, f) + WindowCost
    <3>1. /\ WindowDue("sure", a + S, f + S) <= WindowDue("sure", a, f) + WindowCost
          /\ f + S >= 2 => WindowDue("sure", a + S, f + S) <= WindowDue("no", a, f) + WindowCost
          /\ f + S < 2 => WindowDue("no", a + S, f + S) <= WindowDue("no", a, f) + WindowCost
      BY <1>5, WindowSave, Zenon DEF WindowCost
    <3>2. f + S >= 2 \/ f + S < 2
      OBVIOUS
    <3>3. ~(f + S >= 2 /\ f + S < 2)
      OBVIOUS
    <3> QED BY <1>3, <1>4, <1>6, <2>1, <3>1, <3>2, <3>3, Zenon
  <2>4. WindowDue(u, a + S, f + S) \in Nat /\ WindowDue(t, a, f) \in Nat
    BY <1>a, WindowDues, Zenon
  <2>5. dev.windowErrors + WindowDue(u, a + S, f + S) <= WindowBudget'
    BY <1>1, <1>7, <2>2, <2>3, <2>4, Costs DEF Numbers
  <2> QED BY <1>2, <1>8, <2>1, <2>5, Zenon DEF WindowBounded
<1>10. QuestBounded'
  <2>1. PICK w \in {0, 1, 5} : w = WellServed /\ w \in Levels /\ w + 1 \in Levels /\ w <= w + 1
    BY <1>1 DEF Sorts, Levels
  <2>2. Trouble = (IF Coming THEN w ELSE w + 1) /\ Trouble' = (IF Coming' THEN w ELSE w + 1)
    BY <1>1, <1>3, <1>4, <2>1 DEF Sorts
  <2>3. PICK l \in Levels, m \in Levels : l = Trouble /\ m = Trouble'
    BY <2>1, <2>2, Zenon
  <2>4. dev.functionalErrors + QuestDue(l, b, f) <= QuestBudget
    BY <1>1, <1>8, <2>3, Zenon DEF QuestBounded
  <2>5. QuestDue(m, b + S, f + S) <= QuestDue(l, b, f) + QuestCost
    <3>1. /\ QuestDue(w, b + S, f + S) <= QuestDue(w, b, f) + QuestCost
          /\ f + S < 2 => QuestDue(w + 1, b + S, f + S) <= QuestDue(w + 1, b, f) + QuestCost
      BY <1>5, QuestSave, Zenon DEF QuestCost
    <3>2. QuestDue(w, b, f) <= QuestDue(w + 1, b, f)
      BY <1>a, <2>1, QuestDues, Zenon
    <3>3. QuestDue(w, b, f) \in Nat /\ QuestDue(w + 1, b, f) \in Nat /\ QuestDue(w, b + S, f + S) \in Nat
      BY <1>a, <2>1, QuestDues, Zenon
    <3>4. QuestDue(w, b + S, f + S) <= QuestDue(w + 1, b, f) + QuestCost
      BY <3>1, <3>2, <3>3, Costs
    <3>5. f + S >= 2 \/ f + S < 2
      OBVIOUS
    <3> QED BY <1>6, <2>2, <2>3, <3>1, <3>4, <3>5, Zenon
  <2>6. QuestDue(m, b + S, f + S) \in Nat /\ QuestDue(l, b, f) \in Nat
    BY <1>a, QuestDues, Zenon
  <2>7. dev.functionalErrors + QuestDue(m, b + S, f + S) <= QuestBudget'
    BY <1>1, <1>7, <2>4, <2>5, <2>6, Costs DEF Numbers
  <2> QED BY <1>2, <1>8, <2>3, <2>7, Zenon DEF QuestBounded
<1> QED BY <1>1, <1>2, <1>3, <1>9, <1>10, Zenon DEF Running

(* A device within the thresholds goes on.                                 *)
LEMMA GoesOn ==
  ASSUME NEW d \in Device, d.windowErrors <= ErrorThreshold, d.functionalErrors <= ErrorThreshold
  PROVE  Judge(d) = d
<1>1. d.windowErrors \in Nat /\ d.functionalErrors \in Nat /\ ErrorThreshold \in Nat
  BY PmicAssumption DEF Device
<1>2. ~(d.windowErrors > ErrorThreshold) /\ ~(d.functionalErrors > ErrorThreshold)
  BY <1>1
<1> QED BY <1>2 DEF Judge

(* Whether a strobe is coming, before and after 50 ms.                     *)
LEMMA TickComing ==
  ASSUME TypeOK, Tick
  PROVE  /\ masked = 0 => ~Coming /\ (Coming' <=> phase = 1)
         /\ masked # 0 => (Coming' <=> Coming)
<1>1. timer \in BOOLEAN /\ phase \in {0, 1} /\ masked \in Nat
  <2>1. SaveUnits \in Nat
    BY PmicAssumption
  <2> QED BY <2>1 DEF TypeOK
<1>2. /\ todo' = todo /\ todo["isr"] = <<>>
      /\ masked = 0 => ~timer
      /\ phase' = 1 - phase /\ masked' = IF masked = 0 THEN 0 ELSE masked - 1
      /\ timer' = (timer \/ phase = 1)
  BY Zenon DEF Tick, driver, Busy
<1>3. timer' = TRUE <=> timer = TRUE \/ phase = 1
  BY <1>1, <1>2, Zenon
<1>4. (Coming <=> timer = TRUE \/ phase + masked >= 2) /\ (Coming' <=> timer' = TRUE \/ phase' + masked' >= 2)
  BY <1>2, Zenon DEF Coming
<1>5. CASE masked = 0
  <2>1. ~(phase + masked >= 2) /\ ~(phase' + masked' >= 2)
    BY <1>1, <1>2, <1>5
  <2>2. timer # TRUE
    BY <1>2, <1>5, Zenon
  <2> QED BY <1>3, <1>4, <1>5, <2>1, <2>2, Zenon
<1>6. CASE masked # 0
  <2>1. phase = 0 => (phase' + masked' >= 2 <=> phase + masked >= 2)
    BY <1>1, <1>2, <1>6
  <2>2. phase = 1 => phase + masked >= 2
    BY <1>1, <1>6
  <2>3. phase = 0 => phase # 1
    OBVIOUS
  <2> QED BY <1>1, <1>3, <1>4, <1>6, <2>1, <2>2, <2>3, Zenon
<1> QED BY <1>5, <1>6, Zenon

(* What 50 ms cost is what was due.                                        *)
LEMMA TickPaid ==
  ASSUME InService, Tick,
         NEW age, NEW w, NEW beat, NEW e,
         age = (IF dev.age = 2 THEN 0 ELSE dev.age + 1),
         w = (IF dev.age = 2 THEN Fail(dev.windowErrors) ELSE dev.windowErrors),
         beat = (IF dev.beat = 4 THEN 0 ELSE dev.beat + 1),
         e = (IF dev.beat = 4 THEN Fail(dev.functionalErrors) ELSE dev.functionalErrors)
  PROVE  /\ age \in 0..2 /\ w \in Nat /\ beat \in 0..4 /\ e \in Nat
         /\ w + WindowDue(IF Coming' THEN "sure" ELSE "no", age + masked', phase' + masked') <= WindowBudget
         /\ e + QuestDue(IF Coming' THEN WellServed ELSE IllServed, beat + masked', phase' + masked') <= QuestBudget
<1>1. TypeOK /\ Numbers /\ Sorts /\ WindowBounded /\ QuestBounded
  BY FramesSound, Sorted
<1>2. /\ todo["main"] = <<>> /\ todo["isr"] = <<>>
      /\ phase' = 1 - phase /\ masked' = IF masked = 0 THEN 0 ELSE masked - 1
  BY Zenon DEF Tick, Busy
<1>3. /\ Trigger = IF Coming THEN "sure" ELSE "no"
      /\ Trouble = IF Coming THEN WellServed ELSE IllServed
  BY <1>2, IdleModule
<1>4. /\ masked = 0 => ~Coming /\ (Coming' <=> phase = 1)
      /\ masked # 0 => (Coming' <=> Coming)
  BY <1>1, TickComing
<1>5. PICK a \in 0..2, b \in 0..4, f \in {0, 1}, m \in Nat, v \in Nat, u \in Nat :
         a = dev.age /\ b = dev.beat /\ f = phase /\ m = masked /\ v = dev.windowErrors /\ u = dev.functionalErrors
  BY <1>1, Zenon DEF Numbers
<1>6. /\ age = (IF a = 2 THEN 0 ELSE a + 1) /\ age \in 0..2
      /\ w = v + (IF a = 2 THEN 2 ELSE 0) /\ w \in Nat
      /\ beat = (IF b = 4 THEN 0 ELSE b + 1) /\ beat \in 0..4
      /\ e = u + (IF b = 4 THEN 2 ELSE 0) /\ e \in Nat
  BY <1>5 DEF Fail
<1>7. /\ "sure" \in Triggers /\ "no" \in Triggers
      /\ v + WindowDue(Trigger, a + m, f + m) <= WindowBudget
      /\ u + QuestDue(Trouble, b + m, f + m) <= QuestBudget
      /\ WindowBudget \in Nat /\ QuestBudget \in Nat
  BY <1>1, <1>5, Budgets DEF Triggers, WindowBounded, QuestBounded
<1>8. PICK l \in {0, 1, 5} : l = WellServed /\ l + 1 = IllServed /\ l \in Levels /\ l + 1 \in Levels
  BY <1>1 DEF Sorts, Levels
<1>9. CASE masked = 0
  <2>0. m = 0 /\ masked' = 0 /\ phase' = 1 - f
    BY <1>2, <1>5, <1>9
  <2>1. a + m = a /\ b + m = b /\ f + m = f /\ age + masked' = age /\ beat + masked' = beat /\ phase' + masked' = 1 - f
    BY <1>6, <2>0
  <2>2. v + WindowDue("no", a, f) <= WindowBudget /\ u + QuestDue(l + 1, b, f) <= QuestBudget
    BY <1>3, <1>4, <1>7, <1>8, <1>9, <2>1, Zenon
  <2>3. /\ f = 0 => (IF a = 2 THEN 2 ELSE 0) + WindowDue("no", age, 1) <= WindowDue("no", a, f)
        /\ f = 1 => (IF a = 2 THEN 2 ELSE 0) + WindowDue("sure", age, 0) <= WindowDue("no", a, f)
    BY <1>6, WindowTick, Zenon
  <2>4. /\ f = 0 => (IF b = 4 THEN 2 ELSE 0) + QuestDue(l + 1, beat, 1) <= QuestDue(l + 1, b, f)
        /\ f = 1 => (IF b = 4 THEN 2 ELSE 0) + QuestDue(l, beat, 0) <= QuestDue(l + 1, b, f)
    BY <1>6, QuestTick, Zenon
  <2>5. /\ WindowDue("no", age, 1) \in Nat /\ WindowDue("sure", age, 0) \in Nat /\ WindowDue("no", a, f) \in Nat
        /\ QuestDue(l + 1, beat, 1) \in Nat /\ QuestDue(l, beat, 0) \in Nat /\ QuestDue(l + 1, b, f) \in Nat
    <3>1. age \in Nat /\ beat \in Nat /\ a \in Nat /\ b \in Nat /\ f \in Nat /\ 0 \in Nat /\ 1 \in Nat
      BY <1>6
    <3> QED BY <1>7, <1>8, <3>1, WindowDues, QuestDues, Zenon
  <2>6. CASE f = 0
    <3>1. w + WindowDue("no", age, 1) <= WindowBudget /\ e + QuestDue(l + 1, beat, 1) <= QuestBudget
      BY <1>6, <1>7, <2>2, <2>3, <2>4, <2>5, <2>6
    <3>2. phase' + masked' = 1 /\ ~Coming'
      BY <1>4, <1>5, <1>9, <2>1, <2>6
    <3> QED BY <1>6, <1>8, <2>1, <3>1, <3>2, Zenon
  <2>7. CASE f = 1
    <3>1. w + WindowDue("sure", age, 0) <= WindowBudget /\ e + QuestDue(l, beat, 0) <= QuestBudget
      BY <1>6, <1>7, <2>2, <2>3, <2>4, <2>5, <2>7
    <3>2. phase' + masked' = 0 /\ Coming'
      BY <1>4, <1>5, <1>9, <2>1, <2>7
    <3> QED BY <1>6, <1>8, <2>1, <3>1, <3>2, Zenon
  <2> QED BY <2>6, <2>7
<1>10. CASE masked # 0
  <2>0. m > 0 /\ masked' = m - 1 /\ phase' = 1 - f
    BY <1>2, <1>5, <1>10
  <2>1. PICK t \in Triggers, k \in Levels :
            /\ t = Trigger /\ t = (IF Coming' THEN "sure" ELSE "no")
            /\ k = Trouble /\ k = (IF Coming' THEN WellServed ELSE IllServed)
    BY <1>3, <1>4, <1>7, <1>8, <1>10, Zenon
  <2>2. PICK n \in Nat, r \in Nat, p \in Nat : n = age + masked' /\ r = beat + masked' /\ p = phase' + masked'
    BY <1>6, <2>0
  <2>3. /\ a # 2 => a + m = n
        /\ a = 2 => a + m = n + 3
        /\ b # 4 => b + m = r
        /\ b = 4 => b + m = r + 5
        /\ f = 0 => f + m = p
        /\ f = 1 => f + m = p + 2
    BY <1>6, <2>0, <2>2
  <2>4. ASSUME NEW z \in Nat
        PROVE  /\ WindowDue(t, z, p) \in Nat /\ WindowDue(t, z + 3, p) = WindowDue(t, z, p) + 2
               /\ WindowDue(t, z, p + 2) = WindowDue(t, z, p)
               /\ QuestDue(k, z, p) \in Nat /\ QuestDue(k, z + 5, p) = QuestDue(k, z, p) + 2
               /\ QuestDue(k, z, p + 2) = QuestDue(k, z, p)
    <3>1. /\ WindowDue(t, z, p) \in Nat
          /\ WindowDue(t, z, p) <= WindowDue("perhaps", z, p)
          /\ WindowDue(t, z + 3, p) = WindowDue(t, z, p) + 2
          /\ WindowDue(t, z, p + 2) = WindowDue(t, z, p)
      BY WindowDues, Zenon
    <3>2. /\ QuestDue(k, z, p) \in Nat
          /\ QuestDue(k, z + 5, p) = QuestDue(k, z, p) + 2
          /\ QuestDue(k, z, p + 2) = QuestDue(k, z, p)
      BY QuestDues, Zenon
    <3> QED BY <3>1, <3>2, Zenon
  <2>5. f = 0 \/ f = 1
    OBVIOUS
  <2>6. WindowDue(t, a + m, f + m) = WindowDue(t, a + m, p) /\ QuestDue(k, b + m, f + m) = QuestDue(k, b + m, p)
    <3>1. a + m \in Nat /\ b + m \in Nat
      OBVIOUS
    <3> QED BY <2>3, <2>4, <2>5, <3>1, Zenon
  <2>7. v + WindowDue(t, a + m, p) <= WindowBudget /\ u + QuestDue(k, b + m, p) <= QuestBudget
    BY <1>7, <2>1, <2>6, Zenon
  <2>8. w + WindowDue(t, n, p) <= WindowBudget
    <3>1. WindowDue(t, n, p) \in Nat /\ WindowDue(t, n + 3, p) = WindowDue(t, n, p) + 2
      BY <2>4, Zenon
    <3>2. WindowDue(t, a + m, p) = IF a = 2 THEN WindowDue(t, n, p) + 2 ELSE WindowDue(t, n, p)
      BY <2>3, <3>1, Zenon
    <3>3. PICK due \in Nat : due = WindowDue(t, n, p)
      BY <3>1
    <3>4. v + (IF a = 2 THEN due + 2 ELSE due) <= WindowBudget
      BY <2>7, <3>2, <3>3, Zenon
    <3>5. w + due <= WindowBudget
      BY <1>6, <1>7, <3>4
    <3> QED BY <3>3, <3>5
  <2>9. e + QuestDue(k, r, p) <= QuestBudget
    <3>1. QuestDue(k, r, p) \in Nat /\ QuestDue(k, r + 5, p) = QuestDue(k, r, p) + 2
      BY <2>4, Zenon
    <3>2. QuestDue(k, b + m, p) = IF b = 4 THEN QuestDue(k, r, p) + 2 ELSE QuestDue(k, r, p)
      BY <2>3, <3>1, Zenon
    <3>3. PICK due \in Nat : due = QuestDue(k, r, p)
      BY <3>1
    <3>4. u + (IF b = 4 THEN due + 2 ELSE due) <= QuestBudget
      BY <2>7, <3>2, <3>3, Zenon
    <3>5. e + due <= QuestBudget
      BY <1>6, <1>7, <3>4
    <3> QED BY <3>3, <3>5
  <2> QED BY <1>6, <2>1, <2>2, <2>8, <2>9, Zenon
<1> QED BY <1>9, <1>10

(* Time passes.                                                            *)
LEMMA RunningTick ==
  ASSUME Margin, InService, WatchdogInv', Tick
  PROVE  Running'
<1>1. /\ TypeOK /\ Numbers /\ TypeOK' /\ Numbers' /\ Sorts
      /\ dev.state = "normal" /\ faults + overlaps <= MaxDisturbed /\ dev \in Device
  BY FramesSound, Sorted DEF WatchdogInv, TypeOK, Device
<1>2. /\ UNCHANGED <<todo, pc, lastQuest, shift, txbuf, intFlag>>
      /\ UNCHANGED <<faults, overlaps, saves>>
      /\ todo["main"] = <<>> /\ todo["isr"] = <<>>
  BY Zenon DEF Tick, driver, spi, history, Busy
<1>3. PICK age, w, beat, e :
         /\ age = (IF dev.age = 2 THEN 0 ELSE dev.age + 1)
         /\ w = (IF dev.age = 2 THEN Fail(dev.windowErrors) ELSE dev.windowErrors)
         /\ beat = (IF dev.beat = 4 THEN 0 ELSE dev.beat + 1)
         /\ e = (IF dev.beat = 4 THEN Fail(dev.functionalErrors) ELSE dev.functionalErrors)
         /\ dev' = Judge([dev EXCEPT !.age = age, !.windowErrors = w, !.beat = beat, !.functionalErrors = e])
  BY Zenon DEF Tick
<1>4. /\ age \in 0..2 /\ w \in Nat /\ beat \in 0..4 /\ e \in Nat
      /\ w + WindowDue(IF Coming' THEN "sure" ELSE "no", age + masked', phase' + masked') <= WindowBudget
      /\ e + QuestDue(IF Coming' THEN WellServed ELSE IllServed, beat + masked', phase' + masked') <= QuestBudget
  BY <1>3, TickPaid
<1>5. /\ WindowBudget' = WindowBudget /\ QuestBudget' = QuestBudget
      /\ WindowBudget \in Nat /\ QuestBudget \in Nat
  BY <1>1, <1>2, BudgetsLater, Budgets
<1>6. WindowBudget <= ErrorThreshold /\ QuestBudget <= ErrorThreshold /\ ErrorThreshold \in Nat
  BY <1>1, InBudget, PmicAssumption
<1>7. w <= ErrorThreshold /\ e <= ErrorThreshold
  <2>1. age + masked' \in Nat /\ beat + masked' \in Nat /\ phase' + masked' \in Nat
    <3>1. PICK f \in {0, 1}, m \in Nat : f = phase' /\ m = masked'
      BY <1>1, Zenon DEF Numbers
    <3>2. age + m \in Nat /\ beat + m \in Nat /\ f + m \in Nat
      BY <1>4
    <3> QED BY <3>1, <3>2, Zenon
  <2>2. WindowDue(IF Coming' THEN "sure" ELSE "no", age + masked', phase' + masked') \in Nat
    <3>1. (IF Coming' THEN "sure" ELSE "no") \in Triggers
      BY DEF Triggers
    <3> QED BY <2>1, <3>1, WindowDues, Zenon
  <2>3. QuestDue(IF Coming' THEN WellServed ELSE IllServed, beat + masked', phase' + masked') \in Nat
    <3>1. (IF Coming' THEN WellServed ELSE IllServed) \in Levels
      BY <1>1 DEF Levels, Sorts
    <3> QED BY <2>1, <3>1, QuestDues, Zenon
  <2> QED BY <1>4, <1>5, <1>6, <2>2, <2>3
<1> DEFINE x == [dev EXCEPT !.age = age, !.windowErrors = w, !.beat = beat, !.functionalErrors = e]
<1>8. x \in Device /\ x.age = age /\ x.windowErrors = w /\ x.beat = beat /\ x.functionalErrors = e
      /\ x.state = "normal" /\ x.quest = dev.quest /\ x.count = dev.count /\ x.right = dev.right
  <2>1. x \in Device
    BY <1>1, <1>4, AgedDevice, Zenon DEF Same
  <2> QED BY <1>1, <2>1 DEF Device
<1>9. dev' = x
  <2>1. dev' = Judge(x)
    BY <1>3, Zenon
  <2> HIDE DEF x
  <2> QED BY <1>7, <1>8, <2>1, GoesOn, Zenon
<1> HIDE DEF x
<1>10. /\ Queued' /\ Traffic' /\ Synchronous'
       /\ Trigger' = (IF Coming' THEN "sure" ELSE "no")
       /\ Trouble' = (IF Coming' THEN WellServed ELSE IllServed)
  BY <1>2, <1>8, <1>9, IdleKept
<1>11. WindowBounded' /\ QuestBounded'
  BY <1>4, <1>5, <1>8, <1>9, <1>10, Zenon DEF WindowBounded, QuestBounded
<1> QED BY <1>1, <1>2, <1>8, <1>9, <1>10, <1>11, Zenon DEF Running

\* What a frame leaves of the window, of the quest and of its clock.
SameWindow(e) == e.trigger = dev.trigger /\ e.age = dev.age /\ e.windowErrors = dev.windowErrors
SameQuest(e) == e.quest = dev.quest /\ e.count = dev.count /\ e.right = dev.right
SameBeat(e) == e.beat = dev.beat /\ e.functionalErrors = dev.functionalErrors

\* A trigger that is none, one too early, or one in time.
Fired(e, bit) ==
    \/ bit = dev.trigger /\ SameWindow(e)
    \/ /\ bit # dev.trigger /\ e.age = 0
       /\ \/ dev.age <= 1 /\ e.windowErrors = dev.windowErrors + 2
          \/ dev.age >= 1 /\ e.windowErrors <= dev.windowErrors

\* A response that is wrong, the last of four that are right, or another.
RightByte(data) == dev.right = TRUE /\ data = WatchdogResponses[dev.quest][dev.count]
Wrong(step, data) == (step = "resp0" /\ (dev.count # 4 \/ ~RightByte(data))) \/ (step # "resp0" /\ dev.count = 4)
Failed(e) == e.count = 1 /\ e.right = TRUE /\ e.beat = dev.beat /\ e.functionalErrors = dev.functionalErrors + 2
Passed(e) == e.count = 1 /\ e.right = TRUE /\ e.beat = 0 /\ e.functionalErrors <= dev.functionalErrors
Counting(e, data) ==
    /\ e.count = dev.count + 1 /\ e.quest = dev.quest /\ SameBeat(e)
    /\ e.right = TRUE <=> RightByte(data)
Taken(e, step, data) ==
    IF Wrong(step, data) THEN Failed(e) ELSE IF step = "resp0" THEN Passed(e) ELSE Counting(e, data)

(* The thresholds only change the state.                                   *)
LEMMA JudgedFields ==
  ASSUME NEW d \in Device, d.state = "normal"
  PROVE  /\ Judge(d) \in Device
         /\ Judge(d).windowErrors <= ErrorThreshold /\ Judge(d).functionalErrors <= ErrorThreshold => Judge(d).state = "normal"
         /\ Judge(d).trigger = d.trigger /\ Judge(d).age = d.age /\ Judge(d).windowErrors = d.windowErrors
         /\ Judge(d).quest = d.quest /\ Judge(d).count = d.count /\ Judge(d).right = d.right
         /\ Judge(d).beat = d.beat /\ Judge(d).functionalErrors = d.functionalErrors
<1>1. Judge(d) \in Device
  BY Judged
<1>2. Judge(d) = d \/ Judge(d) = [d EXCEPT !.state = "failed"]
  BY DEF Judge
<1>3. /\ Judge(d).trigger = d.trigger /\ Judge(d).age = d.age /\ Judge(d).windowErrors = d.windowErrors
      /\ Judge(d).quest = d.quest /\ Judge(d).count = d.count /\ Judge(d).right = d.right
      /\ Judge(d).beat = d.beat /\ Judge(d).functionalErrors = d.functionalErrors
  BY <1>2 DEF Device
<1>4. d.windowErrors <= ErrorThreshold /\ d.functionalErrors <= ErrorThreshold => Judge(d).state = "normal"
  BY GoesOn
<1> QED BY <1>1, <1>3, <1>4

(* A trigger.                                                              *)
LEMMA TriggerFields ==
  ASSUME NEW d \in Device, d.state = "normal", NEW bit \in {0, 1}, NEW x \in Triggered(d, bit)
  PROVE  /\ x \in Device /\ x.state = "normal"
         /\ x.quest = d.quest /\ x.count = d.count /\ x.right = d.right /\ x.beat = d.beat
         /\ x.functionalErrors = d.functionalErrors
         /\ \/ bit = d.trigger /\ x.trigger = d.trigger /\ x.age = d.age /\ x.windowErrors = d.windowErrors
            \/ /\ bit # d.trigger /\ x.age = 0
               /\ \/ d.age <= 1 /\ x.windowErrors = d.windowErrors + 2
                  \/ d.age >= 1 /\ x.windowErrors <= d.windowErrors
<1>1. x \in Device /\ x.state = "normal"
  BY TriggeredDevice DEF Same
<1>2. d.age \in 0..2 /\ d.windowErrors \in Nat
  BY DEF Device
<1>3. Fail(d.windowErrors) = d.windowErrors + 2 /\ Succeed(d.windowErrors) <= d.windowErrors
  BY <1>2 DEF Fail, Succeed
<1>4. CASE bit = d.trigger
  <2>1. x = d
    BY <1>4 DEF Triggered
  <2> QED BY <1>1, <1>4, <2>1
<1>5. CASE bit # d.trigger
  <2> DEFINE opened == [d EXCEPT !.trigger = bit, !.age = 0]
             early == [opened EXCEPT !.windowErrors = Fail(@)]
             inTime == [opened EXCEPT !.windowErrors = Succeed(@)]
  <2>1. (x = early /\ d.age <= 1) \/ (x = inTime /\ d.age >= 1)
    <3>1. x \in {y \in {early, inTime} :
                   \/ y = early  /\ d.state = "normal" /\ d.age <= 1
                   \/ y = inTime /\ (d.state # "normal" \/ d.age >= 1)}
      BY <1>5 DEF Triggered
    <3> HIDE DEF early, inTime
    <3> QED BY <3>1
  <2>2. /\ early.quest = d.quest /\ early.count = d.count /\ early.right = d.right /\ early.beat = d.beat
        /\ early.functionalErrors = d.functionalErrors /\ early.age = 0 /\ early.windowErrors = Fail(d.windowErrors)
    BY DEF Device
  <2>3. /\ inTime.quest = d.quest /\ inTime.count = d.count /\ inTime.right = d.right /\ inTime.beat = d.beat
        /\ inTime.functionalErrors = d.functionalErrors /\ inTime.age = 0 /\ inTime.windowErrors = Succeed(d.windowErrors)
    BY DEF Device
  <2> HIDE DEF early, inTime
  <2> QED BY <1>1, <1>3, <1>5, <2>1, <2>2, <2>3, Zenon
<1> QED BY <1>4, <1>5

(* A response.                                                             *)
LEMMA AnswerFields ==
  ASSUME NEW d \in Device, NEW step, NEW data, NEW x \in Answered(d, step, data)
  PROVE  /\ x \in Device /\ x.state = d.state
         /\ x.trigger = d.trigger /\ x.age = d.age /\ x.windowErrors = d.windowErrors
         /\ LET right == d.right = TRUE /\ data = WatchdogResponses[d.quest][d.count]
            IN  IF (step = "resp0" /\ (d.count # 4 \/ ~right)) \/ (step # "resp0" /\ d.count = 4)
                THEN x.count = 1 /\ x.right = TRUE /\ x.beat = d.beat /\ x.functionalErrors = d.functionalErrors + 2
                ELSE IF step = "resp0"
                THEN x.count = 1 /\ x.right = TRUE /\ x.beat = 0 /\ x.functionalErrors <= d.functionalErrors
                ELSE /\ x.count = d.count + 1 /\ x.quest = d.quest /\ x.beat = d.beat
                     /\ x.functionalErrors = d.functionalErrors
                     /\ x.right = TRUE <=> right
<1>1. x \in Device /\ x.state = d.state
  BY AnsweredDevice DEF Same
<1>2. d.functionalErrors \in Nat /\ d.right \in BOOLEAN
  BY DEF Device
<1>3. Fail(d.functionalErrors) = d.functionalErrors + 2 /\ Succeed(d.functionalErrors) <= d.functionalErrors
  BY <1>2 DEF Fail, Succeed
<1> DEFINE right == d.right /\ data = WatchdogResponses[d.quest][d.count]
           fresh(q) == [d EXCEPT !.count = 1, !.right = TRUE, !.quest = q]
           fail(q) == [fresh(q) EXCEPT !.functionalErrors = Fail(@)]
           pass(q) == [fresh(q) EXCEPT !.beat = 0, !.functionalErrors = Succeed(@)]
           more == [d EXCEPT !.count = @ + 1, !.right = right]
<1>4. x \in IF (step = "resp0") # (d.count = 4) \/ (step = "resp0" /\ ~right) THEN {fail(q) : q \in Quests}
            ELSE IF step = "resp0" THEN {pass(q) : q \in Quests} ELSE {more}
  BY DEF Answered
<1>5. \A q : /\ fail(q).trigger = d.trigger /\ fail(q).age = d.age /\ fail(q).windowErrors = d.windowErrors
             /\ fail(q).count = 1 /\ fail(q).right = TRUE /\ fail(q).beat = d.beat
             /\ fail(q).functionalErrors = Fail(d.functionalErrors)
  BY DEF Device
<1>6. \A q : /\ pass(q).trigger = d.trigger /\ pass(q).age = d.age /\ pass(q).windowErrors = d.windowErrors
             /\ pass(q).count = 1 /\ pass(q).right = TRUE /\ pass(q).beat = 0
             /\ pass(q).functionalErrors = Succeed(d.functionalErrors)
  BY DEF Device
<1>7. /\ more.trigger = d.trigger /\ more.age = d.age /\ more.windowErrors = d.windowErrors
      /\ more.count = d.count + 1 /\ more.right = right /\ more.beat = d.beat /\ more.quest = d.quest
      /\ more.functionalErrors = d.functionalErrors
  BY DEF Device
<1>8. right <=> d.right = TRUE /\ data = WatchdogResponses[d.quest][d.count]
  BY <1>2, Zenon
<1>9. right \in BOOLEAN
  BY RightOrNot, Zenon
<1> HIDE DEF right, fail, pass, more
<1>10. (step = "resp0") # (d.count = 4) \/ (step = "resp0" /\ ~right)
       <=> (step = "resp0" /\ (d.count # 4 \/ ~right)) \/ (step # "resp0" /\ d.count = 4)
  BY Zenon
<1>11. CASE (step = "resp0" /\ (d.count # 4 \/ ~right)) \/ (step # "resp0" /\ d.count = 4)
  <2>1. PICK q \in Quests : x = fail(q)
    BY <1>4, <1>10, <1>11
  <2>2. /\ x.trigger = d.trigger /\ x.age = d.age /\ x.windowErrors = d.windowErrors
        /\ x.count = 1 /\ x.right = TRUE /\ x.beat = d.beat /\ x.functionalErrors = d.functionalErrors + 2
    BY <1>3, <1>5, <2>1, Zenon
  <2> QED BY <1>1, <1>8, <1>11, <2>2, Zenon
<1>12. CASE ~((step = "resp0" /\ (d.count # 4 \/ ~right)) \/ (step # "resp0" /\ d.count = 4))
  <2>1. CASE step = "resp0"
    <3>1. PICK q \in Quests : x = pass(q)
      BY <1>4, <1>10, <1>12, <2>1
    <3>2. /\ x.trigger = d.trigger /\ x.age = d.age /\ x.windowErrors = d.windowErrors
          /\ x.count = 1 /\ x.right = TRUE /\ x.beat = 0 /\ x.functionalErrors <= d.functionalErrors
      BY <1>3, <1>6, <3>1, Zenon
    <3> QED BY <1>1, <1>8, <1>12, <2>1, <3>2, Zenon
  <2>2. CASE step # "resp0"
    <3>1. x = more
      BY <1>4, <1>10, <1>12, <2>2
    <3>2. x.right = TRUE <=> right
      BY <1>7, <1>9, <3>1, Zenon
    <3> QED BY <1>1, <1>7, <1>8, <1>12, <2>2, <3>1, <3>2, Zenon
  <2> QED BY <2>1, <2>2, Zenon
<1> QED BY <1>11, <1>12, Zenon

(* The same of the device as it was.                                       *)
LEMMA TakenFields ==
  ASSUME NEW d, d.count = dev.count, d.right = dev.right, d.quest = dev.quest, d.beat = dev.beat,
         d.functionalErrors = dev.functionalErrors, NEW x, NEW step, NEW data,
         LET right == d.right = TRUE /\ data = WatchdogResponses[d.quest][d.count]
         IN  IF (step = "resp0" /\ (d.count # 4 \/ ~right)) \/ (step # "resp0" /\ d.count = 4)
             THEN x.count = 1 /\ x.right = TRUE /\ x.beat = d.beat /\ x.functionalErrors = d.functionalErrors + 2
             ELSE IF step = "resp0"
             THEN x.count = 1 /\ x.right = TRUE /\ x.beat = 0 /\ x.functionalErrors <= d.functionalErrors
             ELSE /\ x.count = d.count + 1 /\ x.quest = d.quest /\ x.beat = d.beat
                  /\ x.functionalErrors = d.functionalErrors
                  /\ x.right = TRUE <=> right
  PROVE  Taken(x, step, data)
<1>1. RightByte(data) <=> d.right = TRUE /\ data = WatchdogResponses[d.quest][d.count]
  BY Zenon DEF RightByte
<1>2. Wrong(step, data) <=> (step = "resp0" /\ (d.count # 4 \/ ~RightByte(data))) \/ (step # "resp0" /\ d.count = 4)
  BY Zenon DEF Wrong
<1>3. CASE Wrong(step, data)
  BY <1>1, <1>2, <1>3, Zenon DEF Taken, Failed
<1>4. CASE ~Wrong(step, data) /\ step = "resp0"
  BY <1>1, <1>2, <1>4, Zenon DEF Taken, Passed
<1>5. CASE ~Wrong(step, data) /\ step # "resp0"
  BY <1>1, <1>2, <1>5, Zenon DEF Taken, Counting, SameBeat
<1> QED BY <1>3, <1>4, <1>5, Zenon

(* What a frame in service does to the device.                             *)
LEMMA Serviced ==
  ASSUME dev \in Device, dev.state = "normal", NEW f, Sound(f),
         f.op = "read" \/ f.step = "window_write" \/ f.step \in Responses, NEW e \in Process(f)
  PROVE  /\ e \in Device
         /\ e.windowErrors <= ErrorThreshold /\ e.functionalErrors <= ErrorThreshold => e.state = "normal"
         /\ f.op = "read" => SameWindow(e) /\ SameQuest(e) /\ SameBeat(e)
         /\ f.step = "window_write" => Fired(e, f.data) /\ SameQuest(e) /\ SameBeat(e)
         /\ f.step \in Responses => SameWindow(e) /\ Taken(e, f.step, f.data)
<1> DEFINE d == [dev EXCEPT !.armed = f.op = "write" /\ f.step = "devctrl"]
           told == [d EXCEPT !.written = @ + 1]
           woken == [d EXCEPT !.state = "normal"]
<1>1. PICK x : /\ e = Judge(x)
               /\ x \in CASE f.op # "write" -> {d}
                          [] f.step = "window_write" -> Triggered(d, f.data)
                          [] f.step \in DOMAIN ResponseIndex -> Answered(d, f.step, f.data)
                          [] f.step \in {"unlock", "config", "lock"} -> {told}
                          [] f.step = "devctrln" /\ dev.armed -> {woken}
                          [] OTHER -> {d}
  BY Zenon DEF Process
<1>2. d \in Device
  <2>1. (f.op = "write" /\ f.step = "devctrl") \in BOOLEAN
    OBVIOUS
  <2> QED BY <2>1, Fields, Zenon DEF Same
<1>3. /\ d.state = "normal" /\ d.trigger = dev.trigger /\ d.age = dev.age /\ d.windowErrors = dev.windowErrors
      /\ d.quest = dev.quest /\ d.count = dev.count /\ d.right = dev.right
      /\ d.beat = dev.beat /\ d.functionalErrors = dev.functionalErrors
  BY DEF Device
<1> HIDE DEF d, told, woken
<1>4. DOMAIN ResponseIndex = Responses
  BY DEF ResponseIndex, Responses
<1>5. /\ f.op = "read" <=> f.step \in ReadSteps
      /\ f.op = "write" <=> f.step \notin ReadSteps
  BY ReadOrWrite
<1>6. CASE f.op = "read"
  <2>1. x = d
    BY <1>1, <1>6, <1>4, <1>5 DEF ReadSteps, Responses
  <2>2. f.step # "window_write" /\ f.step \notin Responses
    BY <1>5, <1>6 DEF ReadSteps, Responses
  <2> QED BY <1>1, <1>2, <1>3, <2>1, <2>2, JudgedFields, Zenon DEF SameWindow, SameQuest, SameBeat
<1>7. CASE f.step = "window_write"
  <2>1. x \in Triggered(d, f.data) /\ f.data \in {0, 1}
    BY <1>1, <1>4, <1>5, <1>7 DEF ReadSteps, Responses, Sound
  <2>2. /\ x \in Device /\ x.state = "normal"
        /\ x.quest = d.quest /\ x.count = d.count /\ x.right = d.right /\ x.beat = d.beat
        /\ x.functionalErrors = d.functionalErrors
        /\ \/ f.data = d.trigger /\ x.trigger = d.trigger /\ x.age = d.age /\ x.windowErrors = d.windowErrors
           \/ /\ f.data # d.trigger /\ x.age = 0
              /\ \/ d.age <= 1 /\ x.windowErrors = d.windowErrors + 2
                 \/ d.age >= 1 /\ x.windowErrors <= d.windowErrors
    BY <1>2, <1>3, <2>1, TriggerFields, Zenon
  <2>3. f.op # "read" /\ f.step \notin Responses
    BY <1>5, <1>7 DEF ReadSteps, Responses
  <2>4. /\ e \in Device
        /\ e.windowErrors <= ErrorThreshold /\ e.functionalErrors <= ErrorThreshold => e.state = "normal"
        /\ e.trigger = x.trigger /\ e.age = x.age /\ e.windowErrors = x.windowErrors
        /\ e.quest = x.quest /\ e.count = x.count /\ e.right = x.right
        /\ e.beat = x.beat /\ e.functionalErrors = x.functionalErrors
    BY <1>1, <2>2, JudgedFields, Zenon
  <2>5. Fired(e, f.data)
    BY <1>3, <2>2, <2>4, Zenon DEF Fired, SameWindow
  <2> QED BY <1>3, <2>2, <2>3, <2>4, <2>5, Zenon DEF SameQuest, SameBeat
<1>8. CASE f.step \in Responses
  <2>1. x \in Answered(d, f.step, f.data)
    BY <1>1, <1>4, <1>5, <1>8 DEF ReadSteps, Responses
  <2>2. /\ x \in Device /\ x.state = d.state
        /\ x.trigger = d.trigger /\ x.age = d.age /\ x.windowErrors = d.windowErrors
        /\ LET right == d.right = TRUE /\ f.data = WatchdogResponses[d.quest][d.count]
           IN  IF (f.step = "resp0" /\ (d.count # 4 \/ ~right)) \/ (f.step # "resp0" /\ d.count = 4)
               THEN x.count = 1 /\ x.right = TRUE /\ x.beat = d.beat /\ x.functionalErrors = d.functionalErrors + 2
               ELSE IF f.step = "resp0"
               THEN x.count = 1 /\ x.right = TRUE /\ x.beat = 0 /\ x.functionalErrors <= d.functionalErrors
               ELSE /\ x.count = d.count + 1 /\ x.quest = d.quest /\ x.beat = d.beat
                    /\ x.functionalErrors = d.functionalErrors
                    /\ x.right = TRUE <=> right
    BY <1>2, <2>1, AnswerFields, Zenon
  <2>3. f.op # "read" /\ f.step # "window_write"
    BY <1>5, <1>8 DEF ReadSteps, Responses
  <2>4. /\ e \in Device
        /\ e.windowErrors <= ErrorThreshold /\ e.functionalErrors <= ErrorThreshold => e.state = "normal"
        /\ e.trigger = x.trigger /\ e.age = x.age /\ e.windowErrors = x.windowErrors
        /\ e.quest = x.quest /\ e.count = x.count /\ e.right = x.right
        /\ e.beat = x.beat /\ e.functionalErrors = x.functionalErrors
    BY <1>1, <1>3, <2>2, JudgedFields, Zenon
  <2>5. Taken(x, f.step, f.data)
    BY <1>3, <2>2, TakenFields, Zenon
  <2>6. Taken(e, f.step, f.data)
    BY <2>4, <2>5, Zenon DEF Taken, Failed, Passed, Counting, SameBeat
  <2> QED BY <1>3, <2>2, <2>3, <2>4, <2>6, Zenon DEF SameWindow
<1> QED BY <1>6, <1>7, <1>8, Zenon

(* What the device sends back for a request.                               *)
LEMMA EchoFits ==
  ASSUME NEW f, Sound(f), NEW answer \in Echo(f)
  PROVE  /\ f.op = "write" => answer = f
         /\ f.op = "read" => answer.op = "read"
         /\ f.step = "window_read" => answer.data = 128 * dev.trigger
         /\ f.step = "quest_read" => answer.data = dev.quest
<1>1. CASE f.op = "write"
  BY <1>1, ReadOrWrite DEF Echo, ReadSteps
<1>2. CASE f.op # "write"
  <2>0. f \in Frames
    BY DEF Sound
  <2>1. \A v : [f EXCEPT !.data = v].op = f.op /\ [f EXCEPT !.data = v].data = v
    BY <2>0 DEF Frames
  <2>2. CASE f.step = "window_read"
    BY <1>2, <2>1, <2>2 DEF Echo
  <2>3. CASE f.step = "quest_read"
    BY <1>2, <2>1, <2>3 DEF Echo
  <2>4. CASE f.step = "devstat"
    BY <1>2, <2>1, <2>4 DEF Echo
  <2>5. CASE f.step \notin {"window_read", "quest_read", "devstat"}
    <3>1. PICK v \in StatusValues : answer = [f EXCEPT !.data = v]
      BY <1>2, <2>5 DEF Echo
    <3> QED BY <1>2, <2>1, <2>5, <3>1, Zenon
  <2> QED BY <2>2, <2>3, <2>4, <2>5
<1> QED BY <1>1, <1>2

\* The module has shifted a frame, whatever the bus made of it.
Shifting ==
    /\ shift # None /\ shift' = txbuf /\ txbuf' = None
    /\ UNCHANGED <<todo, pc, windowStatus, lastQuest>>
    /\ UNCHANGED <<timer, phase, masked, saves>>
    /\ \/ intFlag' = TRUE /\ (rxbuf'.op = "write" => rxbuf' = shift)
       \/ UNCHANGED <<rxbuf, intFlag>>

(* What that leaves of the queues and of the frames under way.             *)
LEMMA ShiftingKept ==
  ASSUME InService, Shifting
  PROVE  /\ masked = 0 /\ Queued' /\ Access' = Access /\ Coming' = Coming /\ Answering' = Answering
         /\ BeforeWrite' = BeforeWrite /\ Sound(shift)
         /\ InStep => Underway
         /\ Access = "quest_read" \/ Answering => Underway
         /\ shift.op = "write" => txbuf = None /\ ~BeforeWrite /\ ~Coming
         /\ shift.op = "read" \/ shift.step = "window_write" \/ (Answering /\ shift.step \in Responses)
         /\ (Underway => InStep' \/ Astray') => Traffic'
<1>1. TypeOK /\ Numbers /\ Queued /\ Traffic /\ Sound(shift)
  BY FramesSound DEF Shifting
<1>2. /\ shift # None /\ shift' = txbuf /\ txbuf' = None
      /\ UNCHANGED <<todo, pc, windowStatus, lastQuest>>
      /\ UNCHANGED <<timer, phase, masked>>
  BY DEF Shifting
<1>3. masked = 0
  <2>1. SUFFICES ASSUME masked # 0 PROVE FALSE
    OBVIOUS
  <2>2. todo["main"] = <<>> /\ todo["isr"] = <<>>
    BY <1>1, <2>1 DEF Queued
  <2> QED BY <1>2, <2>2, IdleModule DEF Vacant
<1>4. Queued'
  BY <1>1, <1>2 DEF Queued
<1>5. Access' = Access /\ Coming' = Coming /\ Answering' = Answering /\ BeforeWrite' = BeforeWrite
  BY <1>2 DEF Access, Coming, Answering, BeforeWrite
<1>6. InStep => Underway
  BY <1>2 DEF InStep, Unloaded, Through, Vacant
<1>7. Access = "quest_read" \/ Answering => Underway
  BY <1>1, <1>2, <1>6 DEF Traffic, Astray, Vacant
<1>8. shift.op = "write" => txbuf = None /\ ~BeforeWrite /\ ~Coming
  <2>1. SUFFICES ASSUME shift.op = "write" PROVE txbuf = None /\ ~BeforeWrite /\ ~Coming
    OBVIOUS
  <2>2. txbuf = None /\ ~BeforeWrite /\ timer # TRUE
    BY <1>1, <1>2, <2>1 DEF Traffic, ReadsOnly
  <2>3. ~(phase + masked >= 2)
    BY <1>1, <1>3 DEF Numbers
  <2> QED BY <2>2, <2>3, Zenon DEF Coming
<1>9. shift.op = "read" \/ shift.step = "window_write" \/ (Answering /\ shift.step \in Responses)
  <2>1. SUFFICES ASSUME shift.op # "read", shift.step # "window_write" PROVE Answering /\ shift.step \in Responses
    OBVIOUS
  <2>2. shift.op = "write"
    BY <1>1, <2>1 DEF Sound
  <2>3. Answering
    BY <1>1, <1>2, <2>1, <2>2 DEF Traffic
  <2>4. shift = Request(Access)
    BY <1>7, <2>3 DEF Underway
  <2>5. Access # "none"
    BY <2>3 DEF Answering, Responses
  <2>6. shift.step = Access
    BY <2>4, <2>5, FramesSound
  <2> QED BY <2>3, <2>6 DEF Answering
<1>10. ASSUME Underway => InStep' \/ Astray' PROVE Traffic'
  <2>1. (timer = TRUE \/ BeforeWrite)' => ReadsOnly'
    <3>1. SUFFICES ASSUME timer = TRUE \/ BeforeWrite PROVE ReadsOnly'
      BY <1>2, <1>5
    <3>2. ReadsOnly
      BY <1>1, <3>1 DEF Traffic
    <3>3. intFlag' => rxbuf'.op # "write"
      <4>1. CASE rxbuf'.op = "write" => rxbuf' = shift
        BY <1>2, <3>2, <4>1 DEF ReadsOnly
      <4>2. CASE UNCHANGED <<rxbuf, intFlag>>
        BY <3>2, <4>2 DEF ReadsOnly
      <4> QED BY <4>1, <4>2 DEF Shifting
    <3> QED BY <1>2, <3>2, <3>3 DEF ReadsOnly
  <2>2. (intFlag /\ rxbuf.op = "write" => Vacant)'
    <3>1. SUFFICES ASSUME intFlag', rxbuf'.op = "write" PROVE Vacant'
      OBVIOUS
    <3>2. CASE rxbuf' = shift
      BY <1>2, <1>8, <3>1, <3>2 DEF Vacant
    <3>3. CASE UNCHANGED <<rxbuf, intFlag>>
      BY <1>1, <1>2, <3>1, <3>3 DEF Traffic, Vacant
    <3> QED BY <3>1, <3>2, <3>3 DEF Shifting
  <2>3. (Access = "quest_read" \/ Answering => InStep \/ Astray)'
    BY <1>5, <1>7, <1>10
  <2>4. (shift # None /\ shift.op = "write" => shift.step = "window_write" \/ Answering)'
    BY <1>1, <1>2 DEF Traffic
  <2> QED BY <1>2, <2>1, <2>2, <2>3, <2>4, Zenon DEF Traffic
<1> QED BY <1>1, <1>3, <1>4, <1>5, <1>6, <1>7, <1>8, <1>9, <1>10, Zenon

(* A trigger that has been given is not followed by another.               *)
LEMMA TriggerGone ==
  ASSUME InService, Shifting, intFlag' = TRUE, shift.op = "write"
  PROVE  Trigger' = "no"
<1>1. /\ Access' = Access /\ ~BeforeWrite' /\ ~Coming' /\ txbuf = None
  BY ShiftingKept
<1>2. shift' = None /\ txbuf' = None
  BY <1>1 DEF Shifting
<1>3. Access' # "window_read"
  BY <1>1 DEF BeforeWrite
<1>4. ~Unloaded'
  BY DEF Unloaded
<1> QED BY <1>1, <1>2, <1>3, <1>4 DEF Trigger, Sure, Perhaps

(* The device is at its first byte again.                                  *)
LEMMA ShiftingSynchronous ==
  ASSUME InService, Shifting, dev' \in Device,
         Answering \/ SameQuest(dev'),
         Access = "resp0" /\ Through' => dev'.count = 1 /\ dev'.right = TRUE
  PROVE  Synchronous'
<1>1. Access' = Access /\ Answering' = Answering /\ lastQuest' = lastQuest
  BY ShiftingKept DEF Shifting
<1>2. lastQuest = Illegal /\ ~Answering => dev.count = 1 /\ dev.right = TRUE
  BY FramesSound DEF Synchronous
<1> QED BY <1>1, <1>2 DEF Synchronous, SameQuest

(* What a frame does to the device that is in service.                     *)
LEMMA InServiceServed ==
  ASSUME InService, Shifting, NEW e \in Process(shift)
  PROVE  /\ e \in Device
         /\ e.windowErrors <= ErrorThreshold /\ e.functionalErrors <= ErrorThreshold => e.state = "normal"
         /\ shift.op = "read" => SameWindow(e) /\ SameQuest(e) /\ SameBeat(e)
         /\ shift.step = "window_write" => Fired(e, shift.data) /\ SameQuest(e) /\ SameBeat(e)
         /\ shift.step \in Responses => SameWindow(e) /\ Taken(e, shift.step, shift.data)
<1>1. dev \in Device /\ dev.state = "normal"
  BY FramesSound DEF TypeOK, Device
<1>2. Sound(shift) /\ (shift.op = "read" \/ shift.step = "window_write" \/ shift.step \in Responses)
  BY ShiftingKept
<1> QED BY <1>1, <1>2, Serviced

(* The frame of the interrupt gets through on a sound bus.                 *)
LEMMA GetsThrough ==
  ASSUME InService, Shift
  PROVE  /\ Shifting /\ intFlag' = TRUE /\ dev' \in Process(shift)
         /\ faults' = faults /\ overlaps' = overlaps /\ saves' = saves
         /\ Underway => Through'
<1>1. PICK answer \in Echo(shift) : Shifted(answer)
  BY DEF Shift
<1>2. /\ shift # None /\ shift' = txbuf /\ txbuf' = None
      /\ UNCHANGED <<todo, pc, windowStatus, lastQuest>>
      /\ UNCHANGED <<timer, phase, masked, saves, faults, overlaps>>
      /\ intFlag' = TRUE /\ rxbuf' = answer /\ dev' \in Process(shift)
  BY <1>1, Zenon DEF Shift, Shifted, driver, clock, history
<1>3. Sound(shift)
  BY <1>2, FramesSound
<1>4. /\ shift.op = "write" => answer = shift
      /\ shift.op = "read" => answer.op = "read"
      /\ shift.step = "window_read" => answer.data = 128 * dev.trigger
      /\ shift.step = "quest_read" => answer.data = dev.quest
  BY <1>3, EchoFits
<1>5. shift.op = "read" \/ shift.op = "write"
  BY <1>3 DEF Sound
<1>6. Shifting
  BY <1>2, <1>4, <1>5 DEF Shifting
<1>7. ASSUME Underway PROVE Through'
  <2>1. shift = Request(Access) /\ txbuf = None /\ pc["isr"] = "await"
    BY <1>7 DEF Underway
  <2>2. shift.step = Access
    BY <2>1 DEF Request, Frame
  <2>3. Access' = Access /\ Request(Access)' = Request(Access)
    BY <1>2 DEF Access, Request, Frame
  <2>4. /\ shift.op = "read" <=> Access \in ReadSteps
        /\ shift.op = "write" <=> Access \notin ReadSteps
    BY <1>3, <2>2, ReadOrWrite
  <2>5. shift.op = "read" => SameWindow(dev') /\ SameQuest(dev')
    BY <1>2, <1>6, InServiceServed
  <2>6. Access = "window_read" => rxbuf'.op = "read" /\ rxbuf'.data = 128 * dev'.trigger
    BY <1>2, <1>4, <2>2, <2>4, <2>5 DEF ReadSteps, SameWindow
  <2>7. Access = "quest_read" => rxbuf'.op = "read" /\ rxbuf'.data = dev'.quest
    BY <1>2, <1>4, <2>2, <2>4, <2>5 DEF ReadSteps, SameQuest
  <2>8. Access \notin ReadSteps => rxbuf' = Request(Access)'
    BY <1>2, <1>4, <2>1, <2>3, <2>4
  <2>9. Fitting'
    BY <2>3, <2>6, <2>7, <2>8 DEF Fitting
  <2> QED BY <1>2, <2>1, <2>9 DEF Through, Vacant
<1> QED BY <1>2, <1>6, <1>7

(* The trigger after a frame that gave none.                               *)
LEMMA ShiftTrigger ==
  ASSUME InService, Shift, dev'.trigger = dev.trigger,
         ~(shift.step = "window_write" /\ shift.data # dev.trigger)
  PROVE  Trigger' = Trigger \/ Trigger = "perhaps"
<1>1. Shifting /\ intFlag' = TRUE /\ (Underway => Through')
  BY GetsThrough
<1>2. /\ Access' = Access /\ Coming' = Coming /\ BeforeWrite' = BeforeWrite
      /\ InStep => Underway
  BY <1>1, ShiftingKept
<1>3. shift # None /\ shift' = txbuf /\ txbuf' = None
  BY <1>1 DEF Shifting
<1>4. ~Unloaded /\ ~Unloaded'
  BY <1>1, <1>3 DEF Unloaded, Vacant
<1>5. InStep => InStep'
  BY <1>1, <1>2 DEF InStep
<1>6. CASE Perhaps
  <2>1. CASE Sure
    BY <1>2, <1>3, <1>4, <1>5, <2>1 DEF Trigger, Sure
  <2>2. CASE ~Sure
    BY <1>6, <2>2 DEF Trigger
  <2> QED BY <2>1, <2>2
<1>7. CASE ~Perhaps
  <2>1. shift.step # "window_write" /\ (txbuf # None => txbuf.step # "window_write") /\ ~BeforeWrite
    BY <1>3, <1>7 DEF Perhaps
  <2>2. Sure <=> Coming
    BY <1>4, <2>1 DEF Sure, BeforeWrite
  <2>3. Sure' <=> Coming
    BY <1>2, <1>3, <1>4, <2>1 DEF Sure, BeforeWrite
  <2>4. ~Perhaps'
    BY <1>2, <1>3, <2>1 DEF Perhaps
  <2> QED BY <1>7, <2>2, <2>3, <2>4 DEF Trigger
<1> QED BY <1>6, <1>7

(* The trouble after a frame that is no response.                          *)
LEMMA ShiftTrouble ==
  ASSUME InService, Shift, shift.step \notin Responses, SameQuest(dev')
  PROVE  Trouble' <= Trouble
<1>1. Shifting /\ intFlag' = TRUE /\ (Underway => Through')
  BY GetsThrough
<1>2. /\ Access' = Access /\ Coming' = Coming /\ Answering' = Answering
      /\ InStep => Underway
      /\ Access = "quest_read" \/ Answering => Underway
  BY <1>1, ShiftingKept
<1>3. todo' = todo /\ lastQuest' = lastQuest
  BY <1>1 DEF Shifting
<1>4. ~Answering
  <2>1. SUFFICES ASSUME Answering PROVE FALSE
    OBVIOUS
  <2>2. shift = Request(Access)
    BY <1>2, <2>1 DEF Underway
  <2>3. shift.step = Access
    BY <2>2 DEF Request, Frame
  <2> QED BY <2>1, <2>3 DEF Answering
<1>5. WellServed' = WellServed /\ IllServed' = IllServed
  BY <1>3 DEF WellServed, IllServed, Class, SameQuest
<1>6. InStep => InStep'
  BY <1>1, <1>2 DEF InStep
<1>7. Access = "quest_read" => InStep
  BY <1>2 DEF InStep
<1>8. Sorts
  BY FramesSound, Sorted
<1>9. Trouble' = Trouble \/ (Trouble = IllServed /\ Trouble' = WellServed)
  BY <1>2, <1>3, <1>4, <1>5, <1>6, <1>7 DEF Trouble
<1> QED BY <1>8, <1>9 DEF Sorts, Levels

(* What is due of the quest when a response has been taken.                *)
LEMMA ShiftResponse ==
  ASSUME InService, Shift, TypeOK', shift.step \in Responses
  PROVE  /\ QuestBounded'
         /\ Access = "resp0" => dev'.count = 1 /\ dev'.right = TRUE
<1>1. Shifting /\ intFlag' = TRUE /\ (Underway => Through') /\ dev' \in Process(shift)
      /\ faults' = faults /\ overlaps' = overlaps /\ saves' = saves
  BY GetsThrough
<1>2. /\ masked = 0 /\ Access' = Access /\ Answering' = Answering
      /\ Answering => Underway /\ Answering
      /\ shift.op = "read" \/ shift.step = "window_write" \/ (Answering /\ shift.step \in Responses)
      /\ Sound(shift)
  BY <1>1, ShiftingKept
<1>3. Answering /\ Underway /\ Through' /\ Answering'
  BY <1>1, <1>2, ReadOrWrite DEF Responses
<1>4. masked' = 0 /\ phase' = phase /\ lastQuest' = lastQuest
  BY <1>1, <1>2 DEF Shifting
<1>5. Access \in Responses /\ shift = Request(Access) /\ shift.step = Access
  BY <1>3 DEF Answering, Underway, Request, Frame
<1>6. shift.data = WatchdogResponses[lastQuest][ResponseIndex[Access]]
  BY <1>5 DEF Request, Frame, Responses, ReadSteps, ResponseIndex
<1>7. Taken(dev', Access, shift.data)
  BY <1>1, <1>5, InServiceServed
<1>8. Numbers /\ Numbers' /\ QuestBounded /\ Sorts
  BY FramesSound, Sorted
<1>9. QuestBudget' = QuestBudget /\ QuestBudget \in Nat
  BY <1>1, <1>8, BudgetsLater, Budgets
<1>10. PICK c \in 1..4, n \in 1..4, b \in 0..4, f \in {0, 1}, u \in Nat :
          c = ResponseIndex[Access] /\ n = dev.count /\ b = dev.beat /\ f = phase /\ u = dev.functionalErrors
  <2>1. ResponseIndex[Access] \in 1..4
    BY <1>5 DEF ResponseIndex, Responses
  <2> QED BY <1>8, <2>1, Zenon DEF Numbers
<1>11. Access = "resp0" <=> c = 4
  BY <1>5, <1>10 DEF ResponseIndex, Responses
<1>12. Byte = c /\ Byte' = c + 1
  <2>1. ~Through
    BY <1>3 DEF Through, Underway
  <2> QED BY <1>2, <1>3, <1>10, <2>1 DEF Byte
<1>13. /\ Fair <=> n = c /\ dev.right = TRUE /\ dev.quest = lastQuest
       /\ Trouble = IF Fair THEN 0 ELSE IF n > c THEN 4 ELSE 3
  <2>1. Unfair = IF n > c THEN 4 ELSE 3
    BY <1>10, <1>12 DEF Unfair
  <2>2. Fair <=> n = c /\ dev.right = TRUE /\ dev.quest = lastQuest
    BY <1>10, <1>12, Zenon DEF Fair
  <2>3. Trouble = IF Fair THEN 0 ELSE Unfair
    BY <1>3, <1>5 DEF Trouble, Access, InStep, Responses
  <2> QED BY <2>1, <2>2, <2>3
<1>14. PICK m \in 1..4, b2 \in 0..4, u2 \in Nat :
          m = dev'.count /\ b2 = dev'.beat /\ u2 = dev'.functionalErrors
  BY <1>8, Zenon DEF Numbers
<1>15. /\ Fair' <=> m = c + 1 /\ dev'.right = TRUE /\ dev'.quest = lastQuest
       /\ Trouble' = IF Fair' THEN 0 ELSE IF c = 4 THEN 2 ELSE IF m > c + 1 THEN 4 ELSE 3
  <2>1. Unfair' = IF c = 4 THEN 2 ELSE IF m > c + 1 THEN 4 ELSE 3
    BY <1>12, <1>14 DEF Unfair
  <2>2. Fair' <=> m = c + 1 /\ dev'.right = TRUE /\ dev'.quest = lastQuest
    BY <1>4, <1>12, <1>14, Zenon DEF Fair
  <2>3. InStep' /\ todo'["isr"] # <<>> /\ Access' # "quest_read"
    BY <1>2, <1>3, <1>5 DEF InStep, Access, Responses
  <2>4. Trouble' = IF Fair' THEN 0 ELSE Unfair'
    BY <1>3, <2>3 DEF Trouble
  <2> QED BY <2>1, <2>2, <2>4
<1>16. u + QuestTable(Trouble, b, f) <= QuestBudget
  <2>1. dev.beat + masked = b /\ phase + masked = f
    <3>1. b + 0 = b /\ f + 0 = f
      OBVIOUS
    <3> QED BY <1>2, <1>10, <3>1, Zenon
  <2>2. QuestDue(Trouble, b, f) = QuestTable(Trouble, b, f)
    BY <1>8, QuestNow, Zenon DEF Sorts
  <2> QED BY <1>8, <1>10, <2>1, <2>2, Zenon DEF QuestBounded
<1>17. ASSUME u2 + QuestTable(Trouble', b2, f) <= QuestBudget
       PROVE  QuestBounded'
  <2>1. dev'.beat + masked' = b2 /\ phase' + masked' = f
    <3>1. b2 + 0 = b2 /\ f + 0 = f
      OBVIOUS
    <3> QED BY <1>4, <1>10, <1>14, <3>1, Zenon
  <2>2. Trouble' \in Levels
    BY Sorted DEF Sorts
  <2>3. QuestDue(Trouble', b2, f) = QuestTable(Trouble', b2, f)
    BY <2>2, QuestNow, Zenon
  <2> QED BY <1>9, <1>14, <1>17, <2>1, <2>3, Zenon DEF QuestBounded
<1>18. PICK i \in {0, 2} : i = IdleTable(b, f)
  BY DEF IdleTable
<1>19. /\ QuestTable(0, b2, f) = 0 /\ QuestTable(2, b, f) = i /\ QuestTable(3, b, f) = i + 2 /\ QuestTable(4, b, f) = i + 4
       /\ QuestTable(0, b, f) = 0 /\ QuestTable(2, 0, f) = 0
  BY <1>18 DEF QuestTable, IdleTable
<1>20. CASE Wrong(Access, shift.data)
  <2>1. m = 1 /\ dev'.right = TRUE /\ b2 = b /\ u2 = u + 2
    BY <1>7, <1>10, <1>14, <1>20 DEF Taken, Failed
  <2>2. CASE c = 4
    <3>1. ~Fair
      <4>1. n # 4 \/ ~RightByte(shift.data)
        BY <1>10, <1>11, <1>20, <2>2, Zenon DEF Wrong
      <4>2. dev.quest = lastQuest /\ dev.right = TRUE /\ n = c => RightByte(shift.data)
        BY <1>6, <1>10, Zenon DEF RightByte
      <4> QED BY <1>13, <2>2, <4>1, <4>2
    <3>2. Trouble = 3
      BY <1>13, <2>2, <3>1
    <3>3. Trouble' = 2
      BY <1>15, <2>1, <2>2
    <3>4. u2 + QuestTable(Trouble', b2, f) <= QuestBudget
      BY <1>9, <1>16, <1>19, <2>1, <3>2, <3>3
    <3> QED BY <1>17, <2>1, <3>4, <1>14
  <2>3. CASE c # 4
    <3>1. n = 4
      BY <1>10, <1>11, <1>20, <2>3, Zenon DEF Wrong
    <3>2. Trouble = 4
      BY <1>13, <2>3, <3>1
    <3>3. Trouble' = 3
      BY <1>15, <2>1, <2>3
    <3>4. u2 + QuestTable(Trouble', b2, f) <= QuestBudget
      BY <1>9, <1>16, <1>19, <2>1, <3>2, <3>3
    <3> QED BY <1>17, <2>1, <3>4, <1>14
  <2> QED BY <2>2, <2>3
<1>21. CASE ~Wrong(Access, shift.data) /\ Access = "resp0"
  <2>1. m = 1 /\ dev'.right = TRUE /\ b2 = 0 /\ u2 <= u
    BY <1>7, <1>10, <1>14, <1>21 DEF Taken, Passed
  <2>2. Trouble' = 2
    BY <1>11, <1>15, <1>21, <2>1
  <2>3. QuestTable(Trouble, b, f) >= 0
    BY <1>13, <1>19
  <2>4. u2 + QuestTable(Trouble', b2, f) <= QuestBudget
    BY <1>9, <1>13, <1>16, <1>19, <2>1, <2>2
  <2> QED BY <1>14, <1>17, <2>1, <2>4
<1>22. CASE ~Wrong(Access, shift.data) /\ Access # "resp0"
  <2>1. /\ m = n + 1 /\ dev'.quest = dev.quest /\ b2 = b /\ u2 = u
        /\ dev'.right = TRUE <=> RightByte(shift.data)
    BY <1>7, <1>10, <1>14, <1>22 DEF Taken, Counting, SameBeat
  <2>2. c # 4
    BY <1>11, <1>22
  <2>3. Fair => Fair'
    <3>1. dev.quest = lastQuest /\ dev.right = TRUE /\ n = c => RightByte(shift.data)
      BY <1>6, <1>10, Zenon DEF RightByte
    <3> QED BY <1>13, <1>15, <2>1, <3>1, Zenon
  <2>4. Trouble' = 0 \/ Trouble' = Trouble
    BY <1>13, <1>15, <2>1, <2>2, <2>3
  <2>5. u2 + QuestTable(Trouble', b2, f) <= QuestBudget
    BY <1>9, <1>13, <1>16, <1>19, <2>1, <2>4
  <2> QED BY <1>17, <1>22, <2>5
<1> QED BY <1>20, <1>21, <1>22

\* Errors within the bounds are within the thresholds.
LEMMA Within ==
  Margin /\ TypeOK /\ faults + overlaps <= MaxDisturbed /\ WindowBounded /\ QuestBounded =>
      dev.windowErrors <= ErrorThreshold /\ dev.functionalErrors <= ErrorThreshold
<1> SUFFICES ASSUME Margin, TypeOK, faults + overlaps <= MaxDisturbed, WindowBounded, QuestBounded
             PROVE  dev.windowErrors <= ErrorThreshold /\ dev.functionalErrors <= ErrorThreshold
  OBVIOUS
<1>1. Numbers /\ Sorts
  BY Sorted
<1>2. WindowBudget <= ErrorThreshold /\ QuestBudget <= ErrorThreshold /\ WindowBudget \in Nat /\ QuestBudget \in Nat
  BY <1>1, InBudget, Budgets
<1>3. dev.age + masked \in Nat /\ dev.beat + masked \in Nat /\ phase + masked \in Nat
  BY <1>1 DEF Numbers
<1>4. WindowDue(Trigger, dev.age + masked, phase + masked) \in Nat
  BY <1>1, <1>3, WindowDues, Zenon DEF Sorts
<1>5. QuestDue(Trouble, dev.beat + masked, phase + masked) \in Nat
  BY <1>1, <1>3, QuestDues, Zenon DEF Sorts
<1> QED BY <1>1, <1>2, <1>4, <1>5, PmicAssumption DEF WindowBounded, QuestBounded, Numbers

(* Also after a step.                                                      *)
LEMMA WithinLater ==
  ASSUME Margin, TypeOK', faults' + overlaps' <= MaxDisturbed, WindowBounded', QuestBounded'
  PROVE  dev'.windowErrors <= ErrorThreshold /\ dev'.functionalErrors <= ErrorThreshold
<1>1. Margin'
  BY DEF Margin, WindowCost, QuestCost
<1>2. (Margin /\ TypeOK /\ faults + overlaps <= MaxDisturbed /\ WindowBounded /\ QuestBounded =>
         dev.windowErrors <= ErrorThreshold /\ dev.functionalErrors <= ErrorThreshold)'
  BY Within, PTL
<1> QED BY <1>1, <1>2

(* A trigger, in time or early, and the window after it.                   *)
LEMMA WindowPaid ==
  ASSUME InService, Shifting, TypeOK', intFlag' = TRUE, dev' \in Process(shift),
         shift.step = "window_write", shift.data # dev.trigger,
         WindowBudget' = WindowBudget
  PROVE  WindowBounded'
<1>1. /\ masked = 0 /\ Sound(shift)
  BY ShiftingKept
<1>2. shift.op = "write"
  BY <1>1, ReadOrWrite
<1>3. Trigger' = "no" /\ masked' = 0 /\ phase' = phase
  BY <1>1, <1>2, TriggerGone DEF Shifting
<1>4. Trigger = "sure"
  BY DEF Trigger, Sure, Shifting
<1>5. Fired(dev', shift.data)
  BY InServiceServed
<1>6. Numbers /\ Numbers' /\ WindowBounded /\ WindowBudget \in Nat
  BY FramesSound, Sorted, Budgets
<1>7. PICK a \in 0..2, f \in {0, 1}, v \in Nat, w \in Nat :
         a = dev.age /\ f = phase /\ v = dev.windowErrors /\ w = dev'.windowErrors
  BY <1>6, Zenon DEF Numbers
<1>8. (a <= 1 /\ w = v + 2) \/ (a >= 1 /\ w <= v)
  BY <1>5, <1>7 DEF Fired
<1>9. dev'.age = 0
  BY <1>5 DEF Fired
<1>10. /\ dev.age + masked = a /\ phase + masked = f
       /\ dev'.age + masked' = 0 /\ phase' + masked' = f
  <2>1. a + 0 = a /\ f + 0 = f /\ 0 + 0 = 0
    OBVIOUS
  <2> QED BY <1>1, <1>3, <1>7, <1>9, <2>1, Zenon
<1>11. v + WindowDue("sure", a, f) <= WindowBudget
  BY <1>4, <1>6, <1>7, <1>10, Zenon DEF WindowBounded
<1>12. /\ a <= 1 => 2 + WindowDue("no", 0, f) <= WindowDue("sure", a, f)
       /\ a >= 1 => WindowDue("no", 0, f) <= WindowDue("sure", a, f)
  BY WindowFired
<1>13. WindowDue("sure", a, f) \in Nat /\ WindowDue("no", 0, f) \in Nat
  <2>1. "sure" \in Triggers /\ "no" \in Triggers /\ a \in Nat /\ f \in Nat /\ 0 \in Nat
    BY DEF Triggers
  <2> QED BY <2>1, WindowDues, Zenon
<1>14. w + WindowDue("no", 0, f) <= WindowBudget
  BY <1>6, <1>8, <1>11, <1>12, <1>13
<1> QED BY <1>3, <1>7, <1>10, <1>14, Zenon DEF WindowBounded

(* A frame gets through.                                                   *)
LEMMA RunningShift ==
  ASSUME Margin, InService, WatchdogInv', Shift
  PROVE  Running'
<1>1. /\ Shifting /\ intFlag' = TRUE /\ dev' \in Process(shift)
      /\ faults' = faults /\ overlaps' = overlaps /\ saves' = saves
      /\ Underway => Through'
  BY GetsThrough
<1>2. /\ masked = 0 /\ Queued' /\ Access' = Access /\ Answering' = Answering /\ Sound(shift)
      /\ Access = "quest_read" \/ Answering => Underway
      /\ shift.op = "read" \/ shift.step = "window_write" \/ (Answering /\ shift.step \in Responses)
      /\ (Underway => InStep' \/ Astray') => Traffic'
  BY <1>1, ShiftingKept
<1>3. Traffic'
  <2>1. Underway => InStep'
    BY <1>1 DEF InStep
  <2> QED BY <1>2, <2>1
<1>4. /\ TypeOK' /\ Numbers /\ Numbers' /\ WindowBounded /\ QuestBounded /\ faults' + overlaps' <= MaxDisturbed
      /\ masked' = masked /\ phase' = phase
  BY <1>1, FramesSound, Sorted DEF WatchdogInv, Shifting
<1>5. WindowBudget' = WindowBudget /\ QuestBudget' = QuestBudget
  BY <1>1, <1>4, BudgetsLater
<1>6. /\ dev' \in Device
      /\ dev'.windowErrors <= ErrorThreshold /\ dev'.functionalErrors <= ErrorThreshold => dev'.state = "normal"
      /\ shift.op = "read" => SameWindow(dev') /\ SameQuest(dev') /\ SameBeat(dev')
      /\ shift.step = "window_write" => Fired(dev', shift.data) /\ SameQuest(dev') /\ SameBeat(dev')
      /\ shift.step \in Responses => SameWindow(dev') /\ Taken(dev', shift.step, shift.data)
  BY <1>1, InServiceServed
<1>7. shift.op = "read" => shift.step # "window_write" /\ shift.step \notin Responses
  BY <1>2, ReadOrWrite
<1>8. Synchronous'
  <2>1. CASE shift.step \in Responses
    <3>1. Access = "resp0" => dev'.count = 1 /\ dev'.right = TRUE
      BY <1>1, <1>4, <2>1, ShiftResponse
    <3>2. Answering
      BY <1>2, <1>7, <2>1 DEF Responses
    <3> QED BY <1>1, <1>6, <3>1, <3>2, ShiftingSynchronous
  <2>2. CASE shift.step \notin Responses
    <3>1. SameQuest(dev')
      BY <1>2, <1>6, <2>2
    <3>2. Access # "resp0"
      <4>1. SUFFICES ASSUME Access = "resp0" PROVE FALSE
        OBVIOUS
      <4>2. shift = Request(Access)
        BY <1>2, <4>1 DEF Answering, Responses, Underway
      <4> QED BY <2>2, <4>1, <4>2 DEF Request, Frame, Responses
    <3> QED BY <1>1, <1>6, <3>1, <3>2, ShiftingSynchronous
  <2> QED BY <2>1, <2>2
<1>9. WindowBounded'
  <2>1. CASE shift.step = "window_write" /\ shift.data # dev.trigger
    BY <1>1, <1>4, <1>5, <2>1, WindowPaid
  <2>2. CASE ~(shift.step = "window_write" /\ shift.data # dev.trigger)
    <3>1. SameWindow(dev')
      <4>1. CASE shift.step = "window_write"
        BY <1>6, <2>2, <4>1 DEF Fired
      <4>2. CASE shift.step # "window_write"
        BY <1>2, <1>6, <4>2
      <4> QED BY <4>1, <4>2
    <3>2. Trigger' = Trigger \/ Trigger = "perhaps"
      BY <2>2, <3>1, ShiftTrigger DEF SameWindow
    <3>3. dev'.windowErrors <= dev.windowErrors /\ dev'.age = dev.age
      BY <1>4, <3>1 DEF SameWindow, Numbers
    <3> QED BY <1>4, <1>5, <3>2, <3>3, WindowSteady, Zenon
  <2> QED BY <2>1, <2>2
<1>10. QuestBounded'
  <2>1. CASE shift.step \in Responses
    BY <1>4, <2>1, ShiftResponse
  <2>2. CASE shift.step \notin Responses
    <3>1. SameQuest(dev') /\ SameBeat(dev')
      BY <1>2, <1>6, <2>2
    <3>2. Trouble' <= Trouble
      BY <2>2, <3>1, ShiftTrouble
    <3>3. dev'.functionalErrors <= dev.functionalErrors /\ dev'.beat = dev.beat
      BY <1>4, <3>1 DEF SameBeat, Numbers
    <3> QED BY <1>4, <1>5, <3>2, <3>3, QuestSteady, Zenon
  <2> QED BY <2>1, <2>2
<1>11. dev'.state = "normal"
  BY <1>4, <1>6, <1>9, <1>10, WithinLater, Zenon
<1> QED BY <1>2, <1>3, <1>4, <1>8, <1>9, <1>10, <1>11, Zenon DEF Running

(* A wrong response was never to be expected to be right.                  *)
LEMMA WrongOwed ==
  ASSUME InService, Shifting, shift.step \in Responses, Wrong(shift.step, shift.data)
  PROVE  dev.functionalErrors + 2 <= QuestBudget
<1>1. /\ masked = 0 /\ Sound(shift)
      /\ Answering => Underway
      /\ shift.op = "read" \/ shift.step = "window_write" \/ (Answering /\ shift.step \in Responses)
  BY ShiftingKept
<1>2. Answering /\ Underway
  BY <1>1, ReadOrWrite DEF Responses
<1>3. Access \in Responses /\ shift = Request(Access) /\ shift.step = Access
  BY <1>2 DEF Answering, Underway, Request, Frame
<1>4. shift.data = WatchdogResponses[lastQuest][ResponseIndex[Access]]
  BY <1>3 DEF Request, Frame, Responses, ReadSteps, ResponseIndex
<1>5. Numbers /\ QuestBounded /\ QuestBudget \in Nat
  BY FramesSound, Budgets
<1>6. PICK c \in 1..4, n \in 1..4, b \in 0..4, f \in {0, 1}, u \in Nat :
          c = ResponseIndex[Access] /\ n = dev.count /\ b = dev.beat /\ f = phase /\ u = dev.functionalErrors
  <2>1. ResponseIndex[Access] \in 1..4
    BY <1>3 DEF ResponseIndex, Responses
  <2> QED BY <1>5, <2>1, Zenon DEF Numbers
<1>7. Access = "resp0" <=> c = 4
  BY <1>3, <1>6 DEF ResponseIndex, Responses
<1>8. Byte = c
  <2>1. ~Through
    BY <1>2 DEF Through, Underway
  <2> QED BY <1>6, <2>1 DEF Byte
<1>9. ~Fair
  <2>1. SUFFICES ASSUME Fair PROVE FALSE
    OBVIOUS
  <2>2. dev.count = c /\ dev.right = TRUE /\ dev.quest = lastQuest
    BY <1>8, <2>1 DEF Fair
  <2>3. RightByte(shift.data)
    BY <1>4, <1>6, <2>2, Zenon DEF RightByte
  <2>4. Wrong(Access, shift.data) /\ dev.count = 4 <=> Wrong(Access, shift.data) /\ Access = "resp0"
    BY <1>7, <2>2
  <2> QED BY <1>3, <2>3, <2>4, Zenon DEF Wrong
<1>10. Trouble \in {3, 4}
  <2>1. Unfair \in {3, 4}
    BY <1>6, <1>8 DEF Unfair
  <2>2. Trouble = Unfair
    BY <1>2, <1>3, <1>9 DEF Trouble, Access, InStep, Responses
  <2> QED BY <2>1, <2>2
<1>11. dev.beat + masked = b /\ phase + masked = f
  <2>1. b + 0 = b /\ f + 0 = f
    OBVIOUS
  <2> QED BY <1>1, <1>6, <2>1, Zenon
<1>12. PICK l \in {3, 4} : l = Trouble
  BY <1>10, Zenon
<1>13. u + QuestTable(l, b, f) <= QuestBudget
  <2>1. QuestDue(l, b, f) = QuestTable(l, b, f)
    BY QuestNow DEF Levels
  <2> QED BY <1>5, <1>6, <1>11, <1>12, <2>1, Zenon DEF QuestBounded
<1>14. QuestTable(l, b, f) \in Nat /\ QuestTable(l, b, f) >= 2
  BY DEF QuestTable, IdleTable
<1> QED BY <1>5, <1>6, <1>13, <1>14

\* A frame garbled or lost.
LEMMA BusDisturbed ==
  ASSUME InService, Disturb
  PROVE  /\ Shifting /\ (dev' = dev \/ dev' \in Process(shift))
         /\ faults' + overlaps' = faults + overlaps + 1 /\ faults' + overlaps' <= MaxDisturbed /\ saves' = saves
         /\ Underway => Astray' /\ (Answering => ~Through')
         /\ dev' # dev => intFlag' = TRUE
<1>1. Numbers /\ (shift # None => Sound(shift)) /\ shift # None
  BY FramesSound DEF Disturb
<1>2. /\ shift' = txbuf /\ txbuf' = None
      /\ UNCHANGED <<todo, pc, windowStatus, lastQuest>>
      /\ UNCHANGED <<timer, phase, masked, saves, overlaps>>
      /\ faults' = faults + 1 /\ faults + overlaps < MaxDisturbed
      /\ \/ intFlag' = TRUE /\ rxbuf' = [shift EXCEPT !.op = "garbled"] /\ (dev' = dev \/ dev' \in Process(shift))
         \/ UNCHANGED <<rxbuf, intFlag, dev>>
  BY Zenon DEF Disturb, Shifted, driver, clock
<1>3. [shift EXCEPT !.op = "garbled"].op = "garbled"
  BY <1>1 DEF Sound, Frames
<1>4. Shifting
  BY <1>1, <1>2, <1>3 DEF Shifting
<1>5. faults' + overlaps' = faults + overlaps + 1 /\ faults' + overlaps' <= MaxDisturbed
  BY <1>1, <1>2, PmicAssumption DEF Numbers
<1>6. ASSUME Underway PROVE Astray' /\ (Answering => ~Through')
  <2>1. pc'["isr"] # "load" /\ shift' = None /\ txbuf' = None
    BY <1>2, <1>6 DEF Underway
  <2>2. intFlag' => rxbuf'.op = "garbled"
    BY <1>2, <1>3, <1>6 DEF Underway
  <2>3. ASSUME Answering, Through' PROVE FALSE
    <3>1. Fitting' /\ rxbuf'.op = "garbled"
      BY <2>2, <2>3 DEF Through
    <3>2. Access' \in Responses
      BY <1>2, <2>3 DEF Access, Answering
    <3>3. rxbuf' = Request(Access)'
      BY <3>1, <3>2 DEF Fitting, Responses, ReadSteps
    <3>4. Request(Access)'.op = "write"
      BY <3>2 DEF Responses, ReadSteps, Request, Frame
    <3> QED BY <3>1, <3>3, <3>4
  <2> QED BY <2>1, <2>2, <2>3 DEF Astray, Vacant
<1> QED BY <1>2, <1>4, <1>5, <1>6

(* The budget of a disturbance pays for a trigger and for a response.      *)
LEMMA WindowStruck ==
  ASSUME InService, Shifting, TypeOK', intFlag' = TRUE, dev' \in Process(shift),
         shift.step = "window_write", shift.data # dev.trigger,
         faults' + overlaps' = faults + overlaps + 1, saves' = saves
  PROVE  WindowBounded'
<1>1. /\ masked = 0 /\ Sound(shift)
  BY ShiftingKept
<1>2. shift.op = "write"
  BY <1>1, ReadOrWrite
<1>3. Trigger' = "no" /\ masked' = 0 /\ phase' = phase
  BY <1>1, <1>2, TriggerGone DEF Shifting
<1>4. Fired(dev', shift.data)
  BY InServiceServed
<1>5. Numbers /\ Numbers' /\ WindowBounded /\ Sorts
  BY FramesSound, Sorted
<1>6. WindowBudget' = WindowBudget + 4 /\ WindowBudget \in Nat
  BY <1>5, BudgetsLater, Budgets
<1>7. PICK a \in 0..2, f \in {0, 1}, v \in Nat, w \in Nat :
         a = dev.age /\ f = phase /\ v = dev.windowErrors /\ w = dev'.windowErrors
  BY <1>5, Zenon DEF Numbers
<1>8. w <= v + 2 /\ dev'.age = 0
  BY <1>4, <1>7 DEF Fired
<1>9. /\ dev.age + masked = a /\ phase + masked = f
      /\ dev'.age + masked' = 0 /\ phase' + masked' = f
  <2>1. a + 0 = a /\ f + 0 = f /\ 0 + 0 = 0
    OBVIOUS
  <2> QED BY <1>1, <1>3, <1>7, <1>8, <2>1, Zenon
<1>10. PICK t \in Triggers : t = Trigger
  BY <1>5, Zenon DEF Sorts
<1>11. v + WindowDue(t, a, f) <= WindowBudget
  BY <1>5, <1>7, <1>9, <1>10, Zenon DEF WindowBounded
<1>12. WindowDue(t, a, f) \in 0..4 /\ 2 + WindowDue("no", 0, f) <= 4
  BY WindowFired
<1>13. WindowDue("no", 0, f) \in Nat
  <2>1. "no" \in Triggers /\ f \in Nat /\ 0 \in Nat
    BY DEF Triggers
  <2> QED BY <2>1, WindowDues, Zenon
<1>14. w + WindowDue("no", 0, f) <= WindowBudget'
  BY <1>6, <1>8, <1>11, <1>12, <1>13
<1> QED BY <1>3, <1>7, <1>9, <1>14, Zenon DEF WindowBounded

\* A wrong response was owed, and any other counts no error.
LEMMA QuestStruck ==
  ASSUME InService, Shifting, TypeOK', dev' \in Process(shift), shift.step \in Responses,
         faults' + overlaps' = faults + overlaps + 1, saves' = saves
  PROVE  QuestBounded'
<1>1. masked = 0 /\ masked' = 0 /\ phase' = phase
  BY ShiftingKept DEF Shifting
<1>2. Taken(dev', shift.step, shift.data)
  BY InServiceServed
<1>3. Numbers /\ Numbers' /\ Sorts'
  BY FramesSound, Sorted
<1>4. QuestBudget' = QuestBudget + 8 /\ QuestBudget \in Nat
  BY <1>3, BudgetsLater, Budgets
<1>5. CASE Wrong(shift.step, shift.data)
  <2>1. dev.functionalErrors + 2 <= QuestBudget
    BY <1>5, WrongOwed
  <2>2. dev'.functionalErrors = dev.functionalErrors + 2
    BY <1>2, <1>5 DEF Taken, Failed
  <2>3. PICK l \in Levels, b \in 0..4, f \in {0, 1}, u \in Nat :
           l = Trouble' /\ b = dev'.beat /\ f = phase' /\ u = dev'.functionalErrors
    BY <1>3, Zenon DEF Sorts, Numbers
  <2>4. dev'.beat + masked' = b /\ phase' + masked' = f
    <3>1. b + 0 = b /\ f + 0 = f
      OBVIOUS
    <3> QED BY <1>1, <2>3, <3>1, Zenon
  <2>5. QuestDue(l, b, f) \in 0..8
    BY QuestNow, QuestTables
  <2>6. u + QuestDue(l, b, f) <= QuestBudget'
    BY <1>3, <1>4, <2>1, <2>2, <2>3, <2>5 DEF Numbers
  <2> QED BY <2>3, <2>4, <2>6, Zenon DEF QuestBounded
<1>6. CASE ~Wrong(shift.step, shift.data)
  <2>1. dev'.functionalErrors <= dev.functionalErrors
    BY <1>2, <1>3, <1>6 DEF Taken, Passed, Counting, SameBeat, Numbers
  <2> QED BY <1>1, <2>1, Disturbed
<1> QED BY <1>5, <1>6

(* The bus garbles or loses a frame.                                       *)
LEMMA RunningDisturb ==
  ASSUME Margin, InService, WatchdogInv', Disturb
  PROVE  Running'
<1>1. /\ Shifting /\ (dev' = dev \/ dev' \in Process(shift))
      /\ faults' + overlaps' = faults + overlaps + 1 /\ faults' + overlaps' <= MaxDisturbed /\ saves' = saves
      /\ Underway => Astray' /\ (Answering => ~Through')
      /\ dev' # dev => intFlag' = TRUE
  BY BusDisturbed
<1>2. /\ masked = 0 /\ Queued' /\ Access' = Access /\ Answering' = Answering /\ Sound(shift)
      /\ Access = "quest_read" \/ Answering => Underway
      /\ shift.op = "read" \/ shift.step = "window_write" \/ (Answering /\ shift.step \in Responses)
      /\ (Underway => InStep' \/ Astray') => Traffic'
  BY <1>1, ShiftingKept
<1>3. Traffic'
  BY <1>1, <1>2
<1>4. /\ TypeOK' /\ Numbers /\ Numbers' /\ dev \in Device /\ dev.state = "normal"
      /\ masked' = 0 /\ phase' = phase
  BY <1>1, <1>2, FramesSound, Sorted DEF WatchdogInv, Shifting, TypeOK, Device
<1>5. /\ dev'.windowErrors <= dev.windowErrors => WindowBounded'
      /\ dev'.functionalErrors <= dev.functionalErrors => QuestBounded'
  BY <1>1, <1>4, Disturbed
<1>6. CASE dev' = dev
  <2>1. WindowBounded' /\ QuestBounded'
    BY <1>4, <1>5, <1>6 DEF Numbers
  <2>2. SameQuest(dev')
    BY <1>6 DEF SameQuest
  <2>3. Synchronous'
    BY <1>1, <1>2, <1>4, <1>6, <2>2, ShiftingSynchronous DEF Answering, Responses
  <2> QED BY <1>1, <1>2, <1>3, <1>4, <1>6, <2>1, <2>3, Zenon DEF Running
<1>7. CASE dev' # dev
  <2>1. dev' \in Process(shift) /\ intFlag' = TRUE
    BY <1>1, <1>7
  <2>2. /\ dev' \in Device
        /\ dev'.windowErrors <= ErrorThreshold /\ dev'.functionalErrors <= ErrorThreshold => dev'.state = "normal"
        /\ shift.op = "read" => SameWindow(dev') /\ SameQuest(dev') /\ SameBeat(dev')
        /\ shift.step = "window_write" => Fired(dev', shift.data) /\ SameQuest(dev') /\ SameBeat(dev')
        /\ shift.step \in Responses => SameWindow(dev') /\ Taken(dev', shift.step, shift.data)
    BY <1>1, <2>1, InServiceServed
  <2>3. WindowBounded'
    <3>1. CASE SameWindow(dev')
      BY <1>4, <1>5, <3>1 DEF SameWindow, Numbers
    <3>2. CASE shift.step = "window_write" /\ shift.data # dev.trigger
      BY <1>1, <1>4, <2>1, <3>2, WindowStruck
    <3> QED BY <1>2, <2>2, <3>1, <3>2 DEF Fired
  <2>4. QuestBounded'
    <3>1. CASE SameBeat(dev')
      BY <1>4, <1>5, <3>1 DEF SameBeat, Numbers
    <3>2. CASE shift.step \in Responses
      BY <1>1, <1>4, <2>1, <3>2, QuestStruck
    <3> QED BY <1>2, <2>2, <3>1, <3>2
  <2>5. Answering \/ SameQuest(dev')
    BY <1>2, <2>2
  <2>6. Synchronous'
    BY <1>1, <1>2, <2>2, <2>5, ShiftingSynchronous DEF Answering, Responses
  <2>7. dev'.state = "normal"
    BY <1>1, <1>4, <2>2, <2>3, <2>4, WithinLater, Zenon
  <2> QED BY <1>1, <1>2, <1>3, <1>4, <2>3, <2>4, <2>6, <2>7, Zenon DEF Running
<1> QED BY <1>6, <1>7

(* Every step in service keeps the bounds.                                 *)
LEMMA RunningKept ==
  ASSUME Margin, InService, WatchdogInv', [Next]_vars
  PROVE  Running'
<1>1. CASE Next
  <2>1. ASSUME TransferData("main") PROVE Running'
    BY <2>1, MainLoad, MainSeeFlag, MainTake, MainTimeOut, Zenon DEF TransferData
  <2>2. ASSUME TransferData("isr") PROVE Running'
    BY <2>2, IsrLoad, IsrSeeFlag, IsrTake, IsrTimeOut, Zenon DEF TransferData
  <2>3. (\E c \in Context : TransferData(c)) => TransferData("main") \/ TransferData("isr")
    OBVIOUS
  <2> QED BY <1>1, <2>1, <2>2, <2>3, RunningShift, RunningDisturb, RunningStrobe, RunningReadStatus,
             RunningSave, RunningTick, Zenon DEF Next
<1> QED BY <1>1, RunningStutter, Zenon

(* A set-up that was given up is not taken up again.                       *)
LEMMA DeadKept ==
  ASSUME Dead, [Next]_vars
  PROVE  Dead'
<1>1. /\ dev.state = "init" /\ todo["main"] = <<>> /\ todo["isr"] = <<>>
      /\ timer = FALSE /\ shift = None /\ txbuf = None
  BY DEF Dead, Vacant
<1>2. ~Next
  <2>1. \A c \in Context : ~TransferData(c)
    BY <1>1, Zenon DEF TransferData, Load, SeeFlag, Take, TimeOut, Runs, Busy
  <2>2. ~Shift /\ ~Disturb /\ ~Strobe
    BY <1>1, Zenon DEF Shift, Disturb, Strobe
  <2>3. ~Normal
    BY <1>1 DEF Normal
  <2> QED BY <2>1, <2>2, <2>3, Zenon DEF Next, ReadStatusRegisters, Save, Tick
<1>3. UNCHANGED <<todo, shift, txbuf, dev, timer>>
  BY <1>2, Zenon DEF vars, driver, spi, clock
<1> QED BY <1>1, <1>3 DEF Dead, Vacant

(* In set-up only the main loop and the bus take steps.                    *)
LEMMA OpeningSteps ==
  ASSUME NEW k \in 1..33, Opening(k), TypeOK, [Next]_vars
  PROVE  Load("main") \/ SeeFlag("main") \/ Take("main") \/ TimeOut("main") \/ Shift \/ Disturb \/ UNCHANGED vars
<1>1. /\ todo["isr"] = <<>> /\ timer = FALSE /\ dev.state = "init"
  BY DEF Opening, SettingUp
<1>2. ~TransferData("isr") /\ ~Strobe
  BY <1>1, Zenon DEF TransferData, Load, SeeFlag, Take, TimeOut, Runs, Busy, Strobe
<1>3. ~ReadStatusRegisters /\ ~Save /\ ~Tick
  <2>1. ~Normal
    BY <1>1 DEF Normal
  <2> QED BY <2>1, Zenon DEF ReadStatusRegisters, Save, Tick
<1>4. (\E c \in Context : TransferData(c)) => TransferData("main") \/ TransferData("isr")
  OBVIOUS
<1> QED BY <1>2, <1>3, <1>4, Zenon DEF Next, TransferData

-------------------------------------------------------------------------------
(* The same while the device is set up.                                    *)

\* Nothing the thresholds look at while the device is in INIT.
AtRest(d) == d.age = 0 /\ d.windowErrors = 0

(* In INIT a trigger is always in time.                                    *)
LEMMA TriggerAtRest ==
  ASSUME NEW d \in Device, d.state = "init", d.age = 0, d.windowErrors = 0, NEW bit \in {0, 1}, NEW x \in Triggered(d, bit)
  PROVE  /\ x \in Device /\ x.state = "init" /\ x.age = 0 /\ x.windowErrors = 0
         /\ x.quest = d.quest /\ x.count = d.count /\ x.right = d.right /\ x.beat = d.beat
         /\ x.functionalErrors = d.functionalErrors
<1>1. x \in Device /\ x.state = "init"
  BY TriggeredDevice DEF Same
<1>2. Succeed(0) = 0
  BY DEF Succeed
<1> DEFINE opened == [d EXCEPT !.trigger = bit, !.age = 0]
           early == [opened EXCEPT !.windowErrors = Fail(@)]
           inTime == [opened EXCEPT !.windowErrors = Succeed(@)]
<1>3. x = d \/ x = inTime
  <2>1. \/ x = d
        \/ x \in {y \in {early, inTime} :
                   \/ y = early  /\ d.state = "normal" /\ d.age <= 1
                   \/ y = inTime /\ (d.state # "normal" \/ d.age >= 1)}
    BY DEF Triggered
  <2> HIDE DEF early, inTime
  <2> QED BY <2>1
<1>4. /\ inTime.age = 0 /\ inTime.windowErrors = Succeed(d.windowErrors)
      /\ inTime.quest = d.quest /\ inTime.count = d.count /\ inTime.right = d.right /\ inTime.beat = d.beat
      /\ inTime.functionalErrors = d.functionalErrors
  BY DEF Device
<1> HIDE DEF inTime
<1> QED BY <1>1, <1>2, <1>3, <1>4, Zenon

(* What a frame does to the device in set-up.                              *)
LEMMA SetUpServed ==
  ASSUME dev \in Device, dev.state = "init", AtRest(dev), dev.functionalErrors <= ErrorThreshold,
         NEW f, Sound(f), NEW e \in Process(f)
  PROVE  /\ e \in Device /\ AtRest(e)
         /\ e.state = "init" \/ (e.state = "normal" /\ f.step = "devctrln")
         /\ f.step \notin Responses => SameQuest(e) /\ SameBeat(e)
         /\ f.step \in Responses => Taken(e, f.step, f.data)
<1> DEFINE d == [dev EXCEPT !.armed = f.op = "write" /\ f.step = "devctrl"]
           told == [d EXCEPT !.written = @ + 1]
           woken == [d EXCEPT !.state = "normal"]
<1>1. PICK x : /\ e = Judge(x)
               /\ x \in CASE f.op # "write" -> {d}
                          [] f.step = "window_write" -> Triggered(d, f.data)
                          [] f.step \in DOMAIN ResponseIndex -> Answered(d, f.step, f.data)
                          [] f.step \in {"unlock", "config", "lock"} -> {told}
                          [] f.step = "devctrln" /\ dev.armed -> {woken}
                          [] OTHER -> {d}
  BY Zenon DEF Process
<1>2. d \in Device
  <2>1. (f.op = "write" /\ f.step = "devctrl") \in BOOLEAN
    OBVIOUS
  <2> QED BY <2>1, Fields, Zenon DEF Same
<1>3. /\ d.state = "init" /\ d.age = 0 /\ d.windowErrors = 0
      /\ d.quest = dev.quest /\ d.count = dev.count /\ d.right = dev.right
      /\ d.beat = dev.beat /\ d.functionalErrors = dev.functionalErrors
  BY DEF Device, AtRest
<1> HIDE DEF d
<1>4. /\ told \in Device /\ told.state = "init" /\ told.age = 0 /\ told.windowErrors = 0
      /\ told.quest = dev.quest /\ told.count = dev.count /\ told.right = dev.right
      /\ told.beat = dev.beat /\ told.functionalErrors = dev.functionalErrors
  BY <1>2, <1>3 DEF Device
<1>5. /\ woken \in Device /\ woken.state = "normal" /\ woken.age = 0 /\ woken.windowErrors = 0
      /\ woken.quest = dev.quest /\ woken.count = dev.count /\ woken.right = dev.right
      /\ woken.beat = dev.beat /\ woken.functionalErrors = dev.functionalErrors
  BY <1>2, <1>3 DEF Device
<1> HIDE DEF told, woken
<1>6. DOMAIN ResponseIndex = Responses
  BY DEF ResponseIndex, Responses
<1>7. /\ f.op = "write" <=> f.step \notin ReadSteps
      /\ f.step \in Named
  BY ReadOrWrite DEF Sound
<1>8. ASSUME NEW y \in Device, y.state = "init" PROVE Judge(y) = y
  BY <1>8 DEF Judge
<1>9. ASSUME f.step \notin Responses, f.step # "window_write", f.step # "devctrln"
      PROVE  x = d \/ x = told
  BY <1>1, <1>6, <1>9
<1>10. CASE f.step \notin Responses /\ f.step # "window_write" /\ f.step # "devctrln"
  <2>1. e = x
    BY <1>1, <1>2, <1>3, <1>4, <1>8, <1>9, <1>10, Zenon
  <2> QED BY <1>2, <1>3, <1>4, <1>9, <1>10, <2>1, Zenon DEF AtRest, SameQuest, SameBeat
<1>11. CASE f.step = "window_write"
  <2>1. x \in Triggered(d, f.data) /\ f.data \in {0, 1} /\ f.step \notin Responses
    BY <1>1, <1>6, <1>7, <1>11 DEF ReadSteps, Responses, Sound
  <2>2. /\ x \in Device /\ x.state = "init" /\ x.age = 0 /\ x.windowErrors = 0
        /\ x.quest = d.quest /\ x.count = d.count /\ x.right = d.right /\ x.beat = d.beat
        /\ x.functionalErrors = d.functionalErrors
    BY <1>2, <1>3, <2>1, TriggerAtRest, Zenon
  <2>3. e = x
    BY <1>1, <1>8, <2>2, Zenon
  <2> QED BY <1>3, <2>1, <2>2, <2>3, Zenon DEF AtRest, SameQuest, SameBeat
<1>12. CASE f.step \in Responses
  <2>1. x \in Answered(d, f.step, f.data) /\ f.step # "devctrln"
    BY <1>1, <1>6, <1>7, <1>12 DEF ReadSteps, Responses
  <2>2. /\ x \in Device /\ x.state = d.state
        /\ x.trigger = d.trigger /\ x.age = d.age /\ x.windowErrors = d.windowErrors
        /\ LET right == d.right = TRUE /\ f.data = WatchdogResponses[d.quest][d.count]
           IN  IF (f.step = "resp0" /\ (d.count # 4 \/ ~right)) \/ (f.step # "resp0" /\ d.count = 4)
               THEN x.count = 1 /\ x.right = TRUE /\ x.beat = d.beat /\ x.functionalErrors = d.functionalErrors + 2
               ELSE IF f.step = "resp0"
               THEN x.count = 1 /\ x.right = TRUE /\ x.beat = 0 /\ x.functionalErrors <= d.functionalErrors
               ELSE /\ x.count = d.count + 1 /\ x.quest = d.quest /\ x.beat = d.beat
                    /\ x.functionalErrors = d.functionalErrors
                    /\ x.right = TRUE <=> right
    BY <1>2, <2>1, AnswerFields, Zenon
  <2>3. e = x
    BY <1>1, <1>3, <1>8, <2>2, Zenon
  <2>4. Taken(x, f.step, f.data)
    BY <1>3, <2>2, TakenFields, Zenon
  <2> QED BY <1>3, <1>12, <2>2, <2>3, <2>4, Zenon DEF AtRest
<1>13. CASE f.step = "devctrln"
  <2>1. (x = d \/ x = woken) /\ f.step \notin Responses
    BY <1>1, <1>6, <1>7, <1>13 DEF ReadSteps, Responses
  <2>2. e = x
    <3>1. CASE x = d
      BY <1>1, <1>2, <1>3, <1>8, <3>1, Zenon
    <3>2. CASE x = woken
      <4>1. 0 <= ErrorThreshold
        BY PmicAssumption
      <4> QED BY <1>1, <1>5, <3>2, <4>1, GoesOn, Zenon
    <3> QED BY <2>1, <3>1, <3>2
  <2> QED BY <1>2, <1>3, <1>5, <1>13, <2>1, <2>2, Zenon DEF AtRest, SameQuest, SameBeat
<1> QED BY <1>10, <1>11, <1>12, <1>13, Zenon

(* The frame of set-up's k-th access.                                      *)
LEMMA OpeningFrame ==
  ASSUME WatchdogInv, NEW k \in 1..33, Opening(k)
  PROVE  /\ Sound(Request(SetupSteps[k])) /\ Request(SetupSteps[k]).step = SetupSteps[k]
         /\ Request(SetupSteps[k]) # None
         /\ todo["main"] # <<>> /\ Head(todo["main"]) = SetupSteps[k] /\ dev \in Device
         /\ k \in 18..21 <=> SetupSteps[k] \in Responses
         /\ SetupSteps[k] = "devctrln" <=> k = 32
         /\ SetupSteps[k] = "quest_read" <=> k = 17
         /\ SetupSteps[k] = "resp0" <=> k = 21
<1>1. /\ todo["main"] \in Seq(Steps) /\ Len(todo["main"]) = 34 - k
      /\ todo["main"][1] = SetupSteps[k + 1 - 1]
  BY DEF Opening, SettingUp, AtSetup
<1>2. todo["main"] # <<>> /\ Head(todo["main"]) = SetupSteps[k]
  BY <1>1
<1>3. SetupSteps[k] \in Named /\ (SetupSteps[k] \in Responses => lastQuest \in 0..15) /\ windowStatus \in 0..255
  BY <1>2, HeadRequest, Zenon DEF WatchdogInv
<1>4. Sound(Request(SetupSteps[k])) /\ Request(SetupSteps[k]).step = SetupSteps[k]
  BY <1>3, Requested
<1>5. Request(SetupSteps[k]) # None
  BY <1>4, NoneAssumption DEF Sound
<1>6. /\ k \in 18..21 <=> SetupSteps[k] \in Responses
      /\ SetupSteps[k] = "devctrln" <=> k = 32
      /\ SetupSteps[k] = "quest_read" <=> k = 17
      /\ SetupSteps[k] = "resp0" <=> k = 21
  BY SetupList DEF Responses
<1> QED BY <1>2, <1>4, <1>5, <1>6 DEF WatchdogInv, TypeOK, Device

(* Set-up hands over a request.                                            *)
LEMMA OpeningLoad ==
  ASSUME WatchdogInv, NEW k \in 1..33, Opening(k), Load("main")
  PROVE  Opening(k)'
<1>1. SettingUp(k)'
  BY LoadKept, Zenon DEF Opening
<1>2. SettingUp(k) /\ FirstQuest(k) /\ Request(SetupSteps[k]) # None /\ Head(todo["main"]) = SetupSteps[k]
  BY OpeningFrame DEF Opening
<1>3. pc["main"] = "load" /\ pc' = [pc EXCEPT !["main"] = "await"] /\ txbuf = None
      /\ UNCHANGED <<windowStatus, lastQuest, rxbuf, intFlag, dev>>
      /\ UNCHANGED <<phase, faults, overlaps>>
      /\ IF shift = None THEN shift' = Request(Head(todo["main"])) ELSE shift' = shift
  BY DEF Load, clock, history
<1>4. shift = None /\ shift' # None
  BY <1>2, <1>3 DEF SettingUp, InTransfer
<1>5. ~Told(k) /\ Untold /\ ~Told(k)' /\ Untold'
  BY <1>3, <1>4 DEF Told, Untold
<1>6. FirstQuest(k)'
  BY <1>2, <1>3, <1>4, <1>5 DEF FirstQuest
<1> QED BY <1>1, <1>3, <1>6 DEF Opening

(* Set-up sees the flag.                                                   *)
LEMMA OpeningSeeFlag ==
  ASSUME WatchdogInv, NEW k \in 1..33, Opening(k), SeeFlag("main")
  PROVE  Opening(k)'
<1>1. SettingUp(k)'
  BY SeeFlagKept, Zenon DEF Opening
<1>2. SettingUp(k) /\ FirstQuest(k)
  BY DEF Opening
<1>3. pc["main"] = "await" /\ pc' = [pc EXCEPT !["main"] = "take"] /\ pc \in [Context -> {"load", "await", "take"}]
      /\ UNCHANGED <<windowStatus, lastQuest, shift, rxbuf, intFlag, dev>>
      /\ UNCHANGED <<phase, faults, overlaps>>
  BY DEF SeeFlag, spi, clock, history, WatchdogInv, TypeOK
<1>4. pc'["main"] = "take" /\ Request(SetupSteps[k])' = Request(SetupSteps[k])
  BY <1>3 DEF Request, Frame
<1>5. Told(k)' = Told(k) /\ Untold' = Untold
  BY <1>3, <1>4 DEF Told, Untold
<1>6. FirstQuest(k)'
  BY <1>2, <1>3, <1>4, <1>5 DEF FirstQuest
<1> QED BY <1>1, <1>3, <1>6 DEF Opening

(* Nothing happens.                                                        *)
LEMMA OpeningStutter ==
  ASSUME WatchdogInv, NEW k \in 1..33, Opening(k), UNCHANGED vars
  PROVE  Opening(k)'
<1>1. SettingUp(k)'
  BY StutterKept, Zenon DEF Opening
<1>2. /\ UNCHANGED <<todo, pc, windowStatus, lastQuest, shift, txbuf>>
      /\ UNCHANGED <<rxbuf, intFlag, dev, phase, timer>>
      /\ UNCHANGED <<faults, overlaps>>
  BY Zenon DEF vars, spi, driver, clock, history
<1>3. Told(k)' = Told(k) /\ Untold' = Untold
  BY <1>2 DEF Told, Untold, Request, Frame
<1>4. FirstQuest(k)'
  BY <1>2, <1>3 DEF Opening, FirstQuest
<1> QED BY <1>1, <1>2, <1>4 DEF Opening

(* Set-up goes on to its next access, or is given up.                      *)
LEMMA OpeningComplete ==
  ASSUME WatchdogInv, NEW k \in 1..33, Opening(k), NEW answer \in Frames,
         Complete("main", answer), pc["main"] # "load", shift = None,
         UNCHANGED <<dev, phase, faults, overlaps>>,
         (intFlag /\ answer = rxbuf) \/ (~intFlag /\ answer = AllOnes),
         k + 1 \in 1..33, Accepted(Request(SetupSteps[k]), answer), SettingUp(k + 1)'
  PROVE  Opening(k + 1)'
<1>1. FirstQuest(k) /\ dev.state = "init" /\ dev.windowErrors = 0 /\ dev.age = 0 /\ dev.beat = 0 /\ phase = 0
      /\ faults + overlaps <= MaxDisturbed
  BY DEF Opening
<1>2. /\ Sound(Request(SetupSteps[k])) /\ Head(todo["main"]) = SetupSteps[k] /\ dev \in Device
      /\ Request(SetupSteps[k]).step = SetupSteps[k]
      /\ k \in 18..21 <=> SetupSteps[k] \in Responses
      /\ SetupSteps[k] = "quest_read" <=> k = 17
      /\ SetupSteps[k] = "resp0" <=> k = 21
  BY OpeningFrame
<1> DEFINE step == SetupSteps[k]
<1>3. pc' = [pc EXCEPT !["main"] = "load"] /\ pc \in [Context -> {"load", "await", "take"}]
      /\ lastQuest' = CASE step = "quest_read" -> answer.data % 16
                        [] step = "resp0" -> Illegal
                        [] OTHER -> lastQuest
  BY <1>2 DEF Complete, WatchdogInv, TypeOK
<1>4. pc'["main"] = "load" /\ Untold' /\ ~Told(k + 1)' /\ ~Untold
  BY <1>3 DEF Untold, Told
<1>5. k \in 18..21 => Told(k)
  <2>1. SUFFICES ASSUME k \in 18..21 PROVE Told(k)
    OBVIOUS
  <2>2. Request(SetupSteps[k]).op = "write"
    BY <1>2, <2>1, ReadOrWrite DEF Responses, ReadSteps
  <2>3. answer = Request(SetupSteps[k]) /\ answer # AllOnes
    BY <2>2 DEF Accepted, AllOnes, Frame
  <2> QED BY <2>3 DEF Told
<1>6. /\ k = 17 => lastQuest' = answer.data % 16
      /\ k = 21 => lastQuest' = Illegal
      /\ k # 17 /\ k # 21 => lastQuest' = lastQuest
  BY <1>2, <1>3
<1>7. k = 17 /\ faults = 0 => lastQuest' = dev.quest
  <2>1. SUFFICES ASSUME k = 17, faults = 0 PROVE lastQuest' = dev.quest
    OBVIOUS
  <2>2. intFlag /\ rxbuf.op = "read" /\ rxbuf.data = dev.quest
    BY <1>1, <2>1 DEF FirstQuest
  <2>3. answer = rxbuf
    BY <2>2
  <2>4. dev.quest \in 0..15
    BY <1>2, PmicAssumption DEF Device
  <2> QED BY <1>6, <2>1, <2>2, <2>3, <2>4
<1>8. FirstQuest(k + 1)'
  <2>1. CASE k <= 16
    <3>1. k + 1 <= 17 /\ ~(k + 1 > 21) /\ k + 1 \notin 18..21 /\ k + 1 # 21 /\ k <= 17 /\ k # 17 /\ k # 21
      BY <2>1
    <3> QED BY <1>1, <1>4, <1>6, <3>1 DEF FirstQuest
  <2>2. CASE k = 17
    <3>1. dev.count = 1 /\ dev.right = TRUE /\ dev.functionalErrors = 0
      BY <1>1, <2>2 DEF FirstQuest
    <3> QED BY <1>4, <1>7, <2>2, <3>1 DEF FirstQuest
  <2>3. CASE k \in 18..20
    <3>1. dev.count = k - 16 /\ dev.functionalErrors = 0 /\ (faults = 0 => dev.right = TRUE /\ dev.quest = lastQuest)
      BY <1>1, <1>5, <2>3 DEF FirstQuest
    <3>2. lastQuest' = lastQuest /\ (k + 1) - 17 = k - 16
      BY <1>6, <2>3
    <3> QED BY <1>4, <2>3, <3>1, <3>2 DEF FirstQuest
  <2>4. CASE k = 21
    <3>1. /\ dev.count = 1 /\ dev.right = TRUE /\ lastQuest' = Illegal
          /\ dev.functionalErrors <= 2 /\ (faults = 0 => dev.functionalErrors = 0)
      BY <1>1, <1>5, <1>6, <2>4 DEF FirstQuest
    <3> QED BY <1>4, <2>4, <3>1 DEF FirstQuest
  <2>5. CASE k > 21
    <3>1. k + 1 > 21 /\ ~(k + 1 <= 17) /\ k + 1 # 17 /\ k + 1 \notin 18..21 /\ k # 17 /\ k # 21
      BY <2>5
    <3> QED BY <1>1, <1>4, <1>6, <2>5, <3>1 DEF FirstQuest
  <2> QED BY <2>1, <2>2, <2>3, <2>4, <2>5
<1> QED BY <1>1, <1>8 DEF Opening

\* Set-up takes an answer, or waits no longer.
LEMMA OpeningOver ==
  ASSUME WatchdogInv, NEW k \in 1..33, Opening(k), NEW answer \in Frames, Complete("main", answer),
         pc["main"] # "load", shift = None, shift' = None, txbuf' = None,
         UNCHANGED <<dev, phase, timer, faults, overlaps>>,
         (intFlag /\ answer = rxbuf) \/ (~intFlag /\ answer = AllOnes),
         todo'["main"] = <<>> \/ (k + 1 \in 1..33 /\ Accepted(Request(SetupSteps[k]), answer) /\ SettingUp(k + 1)')
  PROVE  Dead' \/ \E j \in 1..33 : Opening(j)'
<1>1. CASE todo'["main"] = <<>>
  <2>1. todo["isr"] = <<>> /\ timer = FALSE /\ dev.state = "init" /\ todo \in [Context -> Seq(Steps)]
    BY DEF Opening, SettingUp, WatchdogInv, TypeOK
  <2>2. todo'["isr"] = <<>>
    BY <2>1 DEF Complete
  <2> QED BY <1>1, <2>1, <2>2 DEF Dead, Vacant
<1>2. CASE k + 1 \in 1..33 /\ Accepted(Request(SetupSteps[k]), answer) /\ SettingUp(k + 1)'
  <2>1. Opening(k + 1)'
    BY <1>2, OpeningComplete
  <2> QED BY <1>2, <2>1
<1> QED BY <1>1, <1>2

(* Set-up takes an answer.                                                 *)
LEMMA OpeningTake ==
  ASSUME WatchdogInv, NEW k \in 1..33, Opening(k), Take("main")
  PROVE  Dead' \/ \E j \in 1..33 : Opening(j)'
<1>1. /\ pc["main"] = "take" /\ Complete("main", rxbuf) /\ shift' = shift /\ txbuf' = txbuf
      /\ UNCHANGED <<dev, phase, timer, faults, overlaps>>
  BY DEF Take, clock, history
<1>2. intFlag /\ shift = None /\ txbuf = None /\ SettingUp(k)
  BY <1>1 DEF Opening, SettingUp, InTransfer
<1>3. todo'["main"] = <<>> \/ (k + 1 \in 1..33 /\ Accepted(Request(SetupSteps[k]), rxbuf) /\ SettingUp(k + 1)')
  BY <1>2, TakeKept, Zenon
<1>4. rxbuf \in Frames
  BY DEF WatchdogInv, TypeOK
<1> QED BY <1>1, <1>2, <1>3, <1>4, OpeningOver

(* Set-up waits no longer.                                                 *)
LEMMA OpeningTimeOut ==
  ASSUME WatchdogInv, NEW k \in 1..33, Opening(k), TimeOut("main")
  PROVE  Dead' \/ \E j \in 1..33 : Opening(j)'
<1>1. /\ pc["main"] = "await" /\ Complete("main", AllOnes) /\ shift' = None /\ txbuf' = None /\ shift = None /\ ~intFlag
      /\ UNCHANGED <<dev, phase, timer, faults, overlaps>>
  BY DEF TimeOut, clock, history
<1>2. SettingUp(k)
  BY DEF Opening
<1>3. todo'["main"] = <<>> \/ (k + 1 \in 1..33 /\ Accepted(Request(SetupSteps[k]), AllOnes) /\ SettingUp(k + 1)')
  BY <1>2, TimeOutKept, Zenon
<1>4. AllOnes \in Frames
  BY DEF AllOnes, Frame, Frames
<1> QED BY <1>1, <1>3, <1>4, OpeningOver

(* The device goes to NORMAL within its bounds.                            *)
LEMMA Waking ==
  TypeOK /\ SettingUp(32) /\ dev.state = "normal" /\ AtRest(dev) /\ dev.beat = 0 /\ phase = 0
  /\ faults + overlaps <= MaxDisturbed /\ FirstQuest(32) /\ shift = None /\ pc["main"] = "await"
  => Running
<1> SUFFICES ASSUME TypeOK, SettingUp(32), dev.state = "normal", AtRest(dev), dev.beat = 0, phase = 0,
                    faults + overlaps <= MaxDisturbed, FirstQuest(32), shift = None, pc["main"] = "await"
             PROVE  Running
  OBVIOUS
<1>1. todo["isr"] = <<>> /\ timer = FALSE /\ masked = 0 /\ txbuf = None /\ AtSetup(32)
  BY DEF SettingUp
<1>2. /\ dev.count = 1 /\ dev.right = TRUE /\ lastQuest = Illegal
      /\ dev.functionalErrors <= 2 /\ (faults = 0 => dev.functionalErrors = 0)
  BY DEF FirstQuest
<1>3. Numbers
  BY Counters
<1>4. Access = "none" /\ ~Answering /\ ~BeforeWrite /\ ~Coming
  <2>1. Access = "none"
    BY <1>1 DEF Access
  <2>2. ~Coming
    <3>1. ~(0 + 0 >= 2)
      OBVIOUS
    <3> QED BY <1>1, <3>1 DEF Coming
  <2> QED BY <2>1, <2>2 DEF Answering, BeforeWrite, Responses
<1>5. Queued
  <2>1. todo["isr"] \notin Asks /\ todo["isr"] \notin Replies
    BY <1>1, AskOrder, ReplyOrder
  <2>2. Tail(todo["main"]) \in Seq({"status", "devstat"})
    <3>1. /\ todo["main"] \in Seq(Steps) /\ Len(todo["main"]) = 2
          /\ todo["main"][2] = SetupSteps[32 + 2 - 1]
      BY <1>1 DEF AtSetup
    <3>2. todo["main"][2] = "devstat"
      BY <3>1, SetupList
    <3>3. /\ Tail(todo["main"]) \in Seq(Steps) /\ Len(Tail(todo["main"])) = 1
          /\ Tail(todo["main"])[1] = "devstat"
      BY <3>1, <3>2
    <3>4. <<"devstat">> \in Seq(Steps)
      BY DEF Steps, ReadSteps, ResponseIndex
    <3>5. Tail(todo["main"]) = <<"devstat">>
      <4>1. \A i \in 1..Len(Tail(todo["main"])) : Tail(todo["main"])[i] = <<"devstat">>[i]
        BY <3>3
      <4>2. Len(Tail(todo["main"])) = Len(<<"devstat">>)
        BY <3>3
      <4> QED BY <3>3, <3>4, <4>1, <4>2, SeqEqual
    <3>6. <<"devstat">> \in Seq({"status", "devstat"})
      OBVIOUS
    <3> QED BY <3>5, <3>6, Zenon
  <2> QED BY <1>1, <2>1, <2>2 DEF Queued
<1>6. Traffic
  BY <1>1, <1>4 DEF Traffic, Vacant
<1>7. Synchronous
  BY <1>2 DEF Synchronous, Access, Through, Vacant
<1>8. Trigger = "no"
  BY <1>1, <1>4 DEF Trigger, Sure, Perhaps
<1>9. Trouble = 2
  BY <1>1, <1>2, <1>4 DEF Trouble, IllServed, Class
<1>10. WindowBudget \in Nat /\ QuestBudget \in Nat /\ (faults # 0 => QuestBudget >= 2)
  <2>1. saves * QuestCost \in Nat
    <3>1. \A s, c \in Nat : s * c \in Nat
      OBVIOUS
    <3> QED BY <1>3, <3>1, Costs, Zenon DEF Numbers
  <2>2. faults # 0 => QuestBudget >= 2
    BY <1>3, <2>1 DEF QuestBudget, Numbers
  <2> QED BY <1>3, <2>2, Budgets
<1>11. WindowDue("no", 0, 0) = 0 /\ QuestDue(2, 0, 0) = 0
  <2>1. WindowDue("no", 0, 0) = WindowTable("no", 0, 0) /\ QuestDue(2, 0, 0) = QuestTable(2, 0, 0)
    <3>1. "no" \in Triggers /\ 2 \in Levels /\ 0 \in 0..2 /\ 0 \in 0..4 /\ 0 \in {0, 1}
      BY DEF Triggers, Levels
    <3> QED BY <3>1, WindowNow, QuestNow, Zenon
  <2> QED BY <2>1 DEF WindowTable, QuestTable, IdleTable
<1>12. dev.age + masked = 0 /\ dev.beat + masked = 0 /\ phase + masked = 0 /\ dev.windowErrors = 0
  BY <1>1 DEF AtRest
<1>13. WindowBounded
  BY <1>8, <1>10, <1>11, <1>12 DEF WindowBounded
<1>14. QuestBounded
  <2>1. dev.functionalErrors + 0 <= QuestBudget
    BY <1>2, <1>3, <1>10 DEF Numbers
  <2> QED BY <1>9, <1>11, <1>12, <2>1, Zenon DEF QuestBounded
<1> QED BY <1>5, <1>6, <1>7, <1>13, <1>14 DEF Running

(* The errors of set-up are below the threshold.                           *)
LEMMA OpeningErrors ==
  ASSUME Margin, TypeOK, NEW k \in 1..33, Opening(k), Untold
  PROVE  dev.functionalErrors <= ErrorThreshold
<1>1. Numbers /\ ErrorThreshold \in Nat /\ MaxDisturbed \in Nat /\ MaxSaves \in Nat
  BY Counters, PmicAssumption
<1>2. FirstQuest(k) /\ faults + overlaps <= MaxDisturbed
  BY DEF Opening
<1>3. CASE k <= 21
  <2>1. dev.functionalErrors = 0
    BY <1>2, <1>3 DEF FirstQuest
  <2> QED BY <1>1, <2>1
<1>4. CASE k > 21
  <2>1. dev.functionalErrors <= 2 /\ (faults = 0 => dev.functionalErrors = 0)
    BY <1>2, <1>4 DEF FirstQuest
  <2>2. MaxSaves * QuestCost \in Nat
    <3>1. \A s, c \in Nat : s * c \in Nat
      OBVIOUS
    <3> QED BY <1>1, <3>1, Costs, Zenon
  <2>3. 8 * MaxDisturbed <= ErrorThreshold
    BY <1>1, <2>2 DEF Margin
  <2> QED BY <1>1, <1>2, <2>1, <2>3 DEF Numbers
<1> QED BY <1>3, <1>4

\* The frame of set-up's k-th access leaves the shift register.
Leaves ==
    /\ shift # None /\ shift' = None /\ pc["main"] = "await" /\ pc' = pc
    /\ lastQuest' = lastQuest /\ windowStatus' = windowStatus /\ phase' = phase
    /\ faults' \in Nat /\ (faults' = 0 => faults = 0)
    /\ faults' + overlaps' <= MaxDisturbed

(* It does so in every step of the bus.                                    *)
LEMMA OpeningLeaves ==
  ASSUME WatchdogInv, NEW k \in 1..33, Opening(k), shift # None
  PROVE  shift = Request(SetupSteps[k]) /\ pc["main"] = "await" /\ txbuf = None /\ ~intFlag /\ Untold
<1>1. SettingUp(k)
  BY DEF Opening
<1> QED BY <1>1 DEF SettingUp, InTransfer, Untold

(* What the device is told of its first quest by a frame it has processed. *)
LEMMA OpeningTold ==
  ASSUME Margin, WatchdogInv, NEW k \in 1..33, Opening(k), Leaves, dev' \in Process(shift),
         faults' = 0 => intFlag' = TRUE /\ rxbuf' \in Echo(shift)
  PROVE  /\ FirstQuest(k)' /\ AtRest(dev') /\ dev'.beat = 0
         /\ dev'.state = "init" \/ (dev'.state = "normal" /\ k = 32)
<1>1. shift = Request(SetupSteps[k]) /\ Untold /\ TypeOK
  BY OpeningLeaves DEF Leaves, WatchdogInv
<1>2. /\ Sound(shift) /\ dev \in Device /\ shift.step = SetupSteps[k]
      /\ k \in 18..21 <=> shift.step \in Responses
      /\ shift.step = "devctrln" <=> k = 32
      /\ shift.step = "quest_read" <=> k = 17
      /\ shift.step = "resp0" <=> k = 21
  <2>1. /\ Sound(Request(SetupSteps[k])) /\ Request(SetupSteps[k]).step = SetupSteps[k] /\ dev \in Device
        /\ k \in 18..21 <=> SetupSteps[k] \in Responses
        /\ SetupSteps[k] = "devctrln" <=> k = 32
        /\ SetupSteps[k] = "quest_read" <=> k = 17
        /\ SetupSteps[k] = "resp0" <=> k = 21
    BY OpeningFrame
  <2>2. shift.step = SetupSteps[k]
    BY <1>1, <2>1
  <2> QED BY <1>1, <2>1, <2>2, Zenon
<1>3. dev.state = "init" /\ AtRest(dev) /\ dev.functionalErrors <= ErrorThreshold /\ dev.beat = 0 /\ FirstQuest(k)
  BY <1>1, OpeningErrors DEF Opening, AtRest
<1>4. /\ dev' \in Device /\ AtRest(dev')
      /\ dev'.state = "init" \/ (dev'.state = "normal" /\ shift.step = "devctrln")
      /\ shift.step \notin Responses => SameQuest(dev') /\ SameBeat(dev')
      /\ shift.step \in Responses => Taken(dev', shift.step, shift.data)
  <2> DEFINE e == dev'
  <2>1. e \in Process(shift)
    BY DEF Leaves
  <2> HIDE DEF e
  <2>2. /\ e \in Device /\ AtRest(e)
        /\ e.state = "init" \/ (e.state = "normal" /\ shift.step = "devctrln")
        /\ shift.step \notin Responses => SameQuest(e) /\ SameBeat(e)
        /\ shift.step \in Responses => Taken(e, shift.step, shift.data)
    BY <1>2, <1>3, <2>1, SetUpServed, Zenon
  <2> QED BY <2>2 DEF e
<1>5. ~Untold' /\ pc'["main"] # "load" /\ lastQuest' = lastQuest /\ (faults' = 0 => faults = 0)
  BY DEF Leaves, Untold
<1>6. CASE k \notin 18..21
  <2>1. SameQuest(dev') /\ SameBeat(dev')
    BY <1>2, <1>4, <1>6
  <2>2. dev'.count = dev.count /\ dev'.right = dev.right /\ dev'.quest = dev.quest /\ dev'.functionalErrors = dev.functionalErrors
    BY <2>1 DEF SameQuest, SameBeat
  <2>3. k = 17 /\ faults' = 0 => intFlag' /\ rxbuf'.op = "read" /\ rxbuf'.data = dev'.quest
    <3>1. SUFFICES ASSUME k = 17, faults' = 0 PROVE intFlag' /\ rxbuf'.op = "read" /\ rxbuf'.data = dev.quest
      BY <2>2
    <3>2. shift.op = "read" /\ shift.step = "quest_read"
      BY <1>2, <3>1, ReadOrWrite DEF ReadSteps
    <3>3. rxbuf' \in Echo(shift) /\ intFlag' = TRUE
      BY <3>1
    <3> QED BY <1>2, <3>2, <3>3, EchoFits
  <2>4. k # 21
    BY <1>6
  <2>5. FirstQuest(k)'
    BY <1>3, <1>5, <1>6, <2>2, <2>3, <2>4 DEF FirstQuest
  <2>6. dev'.beat = 0
    BY <1>3, <2>1 DEF SameBeat
  <2> QED BY <1>2, <1>4, <2>5, <2>6
<1>7. CASE k \in 18..21
  <2>1. Taken(dev', shift.step, shift.data)
    BY <1>2, <1>4, <1>7
  <2>2. /\ dev.count = k - 17 /\ dev.functionalErrors = 0
        /\ faults = 0 => dev.right = TRUE /\ dev.quest = lastQuest
    BY <1>1, <1>3, <1>7 DEF FirstQuest
  <2>3. shift.data = WatchdogResponses[lastQuest][dev.count]
    <3>1. ResponseIndex[SetupSteps[k]] = k - 17
      BY <1>7, SetupList DEF ResponseIndex
    <3>2. SetupSteps[k] \notin ReadSteps /\ SetupSteps[k] # "window_write" /\ SetupSteps[k] \in DOMAIN ResponseIndex
      BY <1>2, <1>7 DEF Responses, ReadSteps, ResponseIndex
    <3> QED BY <1>1, <2>2, <3>1, <3>2 DEF Request, Frame
  <2>4. faults = 0 => RightByte(shift.data)
    BY <2>2, <2>3, Zenon DEF RightByte
  <2>5. CASE k # 21
    <3>1. dev.count # 4 /\ shift.step # "resp0" /\ (k - 17) + 1 = k - 16
      BY <1>2, <1>7, <2>2, <2>5
    <3>2. Counting(dev', shift.data)
      BY <2>1, <3>1 DEF Taken, Wrong
    <3>3. /\ dev'.count = k - 16 /\ dev'.functionalErrors = 0 /\ dev'.beat = 0
          /\ dev'.quest = dev.quest
      BY <1>3, <2>2, <3>1, <3>2 DEF Counting, SameBeat
    <3>4. faults = 0 => dev'.right = TRUE
      BY <2>4, <3>2 DEF Counting
    <3>5. ~(k <= 17) /\ ~(k > 21) /\ k # 17 /\ k # 21
      BY <1>7, <2>5
    <3>6. FirstQuest(k)'
      BY <1>5, <2>2, <3>3, <3>4, <3>5 DEF FirstQuest
    <3> QED BY <1>2, <1>4, <3>3, <3>6
  <2>6. CASE k = 21
    <3>1. dev.count = 4 /\ shift.step = "resp0" /\ (faults = 0 => ~Wrong(shift.step, shift.data))
      BY <1>2, <2>2, <2>4, <2>6 DEF Wrong
    <3>2. Failed(dev') \/ Passed(dev')
      BY <2>1, <3>1 DEF Taken
    <3>3. faults = 0 => Passed(dev')
      BY <2>1, <3>1 DEF Taken
    <3>4. dev'.count = 1 /\ dev'.right = TRUE /\ dev'.beat = 0
      BY <1>3, <3>2 DEF Failed, Passed
    <3>5. dev'.functionalErrors <= 2 /\ (faults = 0 => dev'.functionalErrors = 0)
      <4>1. dev'.functionalErrors \in Nat
        BY <1>4 DEF Device
      <4> QED BY <2>2, <3>2, <3>3, <4>1 DEF Failed, Passed
    <3>6. FirstQuest(k)'
      BY <1>5, <2>6, <3>4, <3>5 DEF FirstQuest
    <3> QED BY <1>2, <1>4, <3>4, <3>6
  <2> QED BY <2>5, <2>6
<1> QED BY <1>6, <1>7

(* The device goes on with set-up, or to NORMAL.                           *)
LEMMA OpeningOn ==
  ASSUME TypeOK', NEW k \in 1..33, SettingUp(k)', Leaves, FirstQuest(k)', AtRest(dev'), dev'.beat = 0, phase = 0,
         dev'.state = "init" \/ (dev'.state = "normal" /\ k = 32)
  PROVE  Running' \/ Opening(k)'
<1>1. phase' = 0 /\ shift' = None /\ pc'["main"] = "await" /\ faults' + overlaps' <= MaxDisturbed
  BY DEF Leaves
<1>2. CASE dev'.state = "init"
  BY <1>1, <1>2 DEF Opening, AtRest
<1>3. CASE dev'.state = "normal" /\ k = 32
  <2>1. SettingUp(32)' /\ FirstQuest(32)'
    BY <1>3
  <2>2. AtRest(dev)'
    BY DEF AtRest
  <2>3. (TypeOK /\ SettingUp(32) /\ dev.state = "normal" /\ AtRest(dev) /\ dev.beat = 0 /\ phase = 0
          /\ faults + overlaps <= MaxDisturbed /\ FirstQuest(32) /\ shift = None /\ pc["main"] = "await")' => Running'
    BY Waking, PTL
  <2> QED BY <1>1, <1>3, <2>1, <2>2, <2>3
<1> QED BY <1>2, <1>3

(* A frame of set-up is shifted.                                           *)
LEMMA OpeningShift ==
  ASSUME Margin, WatchdogInv, WatchdogInv', NEW k \in 1..33, Opening(k), Shift
  PROVE  Running' \/ Opening(k)'
<1>1. SettingUp(k)' /\ TypeOK' /\ phase = 0
  BY ShiftKept, Zenon DEF Opening, WatchdogInv
<1>2. /\ shift # None /\ dev' \in Process(shift) /\ UNCHANGED <<pc, lastQuest, windowStatus, phase, faults, overlaps>>
      /\ intFlag' = TRUE /\ rxbuf' \in Echo(shift) /\ shift' = txbuf
  BY DEF Shift, Shifted, driver, clock, history
<1>3. pc["main"] = "await" /\ txbuf = None
  BY <1>2, OpeningLeaves
<1>4. faults' \in Nat /\ faults' + overlaps' <= MaxDisturbed
  BY <1>1, <1>2 DEF TypeOK, Opening
<1>5. Leaves
  BY <1>2, <1>3, <1>4 DEF Leaves
<1>6. /\ FirstQuest(k)' /\ AtRest(dev') /\ dev'.beat = 0
      /\ dev'.state = "init" \/ (dev'.state = "normal" /\ k = 32)
  BY <1>2, <1>5, OpeningTold
<1> QED BY <1>1, <1>5, <1>6, OpeningOn

(* A frame of set-up is garbled or lost.                                   *)
LEMMA OpeningDisturb ==
  ASSUME Margin, WatchdogInv, WatchdogInv', NEW k \in 1..33, Opening(k), Disturb
  PROVE  Running' \/ Opening(k)'
<1>1. SettingUp(k)' /\ TypeOK' /\ phase = 0 /\ Numbers
  BY DisturbKept, Counters, Zenon DEF Opening, WatchdogInv
<1>2. /\ shift # None /\ UNCHANGED <<pc, lastQuest, windowStatus, phase, overlaps>>
      /\ shift' = txbuf /\ faults' = faults + 1 /\ faults + overlaps < MaxDisturbed
      /\ \/ rxbuf' = [shift EXCEPT !.op = "garbled"] /\ (dev' = dev \/ dev' \in Process(shift))
         \/ intFlag' = intFlag /\ dev' = dev
  BY DEF Disturb, Shifted, driver, clock
<1>3. /\ pc["main"] = "await" /\ txbuf = None /\ ~intFlag /\ shift = Request(SetupSteps[k])
      /\ Sound(shift) /\ Untold
  BY <1>2, OpeningLeaves, OpeningFrame
<1>4. faults' \in Nat /\ faults' # 0 /\ faults' + overlaps' <= MaxDisturbed
  BY <1>1, <1>2, PmicAssumption DEF Numbers
<1>5. Leaves
  BY <1>2, <1>3, <1>4 DEF Leaves
<1>6. CASE dev' \in Process(shift)
  <2>1. /\ FirstQuest(k)' /\ AtRest(dev') /\ dev'.beat = 0
        /\ dev'.state = "init" \/ (dev'.state = "normal" /\ k = 32)
    BY <1>4, <1>5, <1>6, OpeningTold
  <2> QED BY <1>1, <1>5, <2>1, OpeningOn
<1>7. CASE dev' = dev
  <2>1. ~Told(k)' /\ ~Untold'
    <3>1. [shift EXCEPT !.op = "garbled"].op = "garbled" /\ shift.op # "garbled"
      BY <1>3 DEF Sound, Frames
    <3>2. Request(SetupSteps[k])' = shift
      BY <1>2, <1>3 DEF Request, Frame
    <3>3. CASE intFlag' = intFlag
      BY <1>2, <1>3, <3>3 DEF Told, Untold
    <3>4. CASE rxbuf' = [shift EXCEPT !.op = "garbled"]
      <4>1. rxbuf' # Request(SetupSteps[k])'
        BY <3>1, <3>2, <3>4
      <4> QED BY <1>2, <1>3, <4>1 DEF Told, Untold
    <3> QED BY <1>2, <3>3, <3>4
  <2>2. FirstQuest(k) /\ dev.state = "init" /\ dev.windowErrors = 0 /\ dev.age = 0 /\ dev.beat = 0
    BY DEF Opening
  <2>3. k > 21 => dev.functionalErrors <= 2 /\ (faults = 0 => dev.functionalErrors = 0)
    BY <2>2 DEF FirstQuest
  <2>4. FirstQuest(k)'
    BY <1>2, <1>4, <1>7, <2>1, <2>2, <2>3 DEF FirstQuest
  <2>5. AtRest(dev') /\ dev'.beat = 0 /\ dev'.state = "init"
    BY <1>7, <2>2 DEF AtRest
  <2> QED BY <1>1, <1>5, <2>4, <2>5, OpeningOn
<1> QED BY <1>2, <1>6, <1>7

(* Every step of an untorn life keeps the bounds.                          *)
LEMMA BoundedKept ==
  ASSUME Margin, BInv, Untorn, WatchdogInv, [Next]_vars
  PROVE  BInv'
<1>1. SUFFICES ASSUME ~torn' PROVE Bounded'
  BY DEF BInv
<1>2. ~torn
  <2>1. torn' = torn \/ torn' = (torn \/ (Busy("main") /\ pc["main"] = "take"))
    BY Zenon DEF Next, vars, history, TransferData, Load, SeeFlag, Take, TimeOut, Shift, Disturb, Strobe,
       ReadStatusRegisters, Save, Tick
  <2> QED BY <1>1, <2>1
<1>3. WatchdogInv' /\ Shared /\ Bounded
  BY <1>2, AllKept DEF Untorn, BInv
<1>4. CASE Dead
  BY <1>4, DeadKept, Zenon DEF Bounded
<1>5. CASE Running
  BY <1>3, <1>5, RunningKept, Zenon DEF Bounded, InService
<1>6. CASE \E k \in 1..33 : Opening(k)
  <2>1. PICK k \in 1..33 : Opening(k)
    BY <1>6
  <2>2. Load("main") \/ SeeFlag("main") \/ Take("main") \/ TimeOut("main") \/ Shift \/ Disturb \/ UNCHANGED vars
    BY <2>1, OpeningSteps, Zenon DEF WatchdogInv
  <2>3. Running' \/ Opening(k)' \/ Dead' \/ \E j \in 1..33 : Opening(j)'
    BY <1>3, <2>1, <2>2, OpeningLoad, OpeningSeeFlag, OpeningTake, OpeningTimeOut, OpeningShift,
       OpeningDisturb, OpeningStutter, Zenon
  <2> QED BY <2>3, Zenon DEF Bounded
<1> QED BY <1>3, <1>4, <1>5, <1>6, Zenon DEF Bounded

(* Set-up begins with a device at rest.                                    *)
LEMMA BoundedAtFirst == Init => BInv
<1> SUFFICES ASSUME Init PROVE Opening(1)
  BY DEF BInv, Bounded
<1>1. SettingUp(1)
  BY AtFirst
<1>2. /\ dev.state = "init" /\ dev.windowErrors = 0 /\ dev.age = 0 /\ dev.beat = 0
      /\ dev.count = 1 /\ dev.right = TRUE /\ dev.functionalErrors = 0
      /\ phase = 0 /\ lastQuest = Illegal /\ faults = 0 /\ overlaps = 0
  BY DEF Init
<1>3. faults + overlaps <= MaxDisturbed
  BY <1>2, PmicAssumption
<1>4. FirstQuest(1)
  BY <1>2 DEF FirstQuest
<1> QED BY <1>1, <1>2, <1>3, <1>4 DEF Opening

(* While the disturbances and the saves there may be fit the threshold, no *)
(* bus fault, no strobe that meets a status read and no time with the      *)
(* interrupts off makes the device give up (pmicdriver.h:190-214, 280-370).*)
THEOREM DeviceStaysNormal == ASSUME Margin PROVE Spec => []StaysNormal
<1>1. Init => Untorn /\ WatchdogInv /\ BInv
  BY UntornAtFirst, AtFirst, BoundedAtFirst
<1>2. Untorn /\ WatchdogInv /\ BInv /\ [Next]_vars => Untorn' /\ WatchdogInv' /\ BInv'
  BY UntornKept, AllKept, BoundedKept
<1>3. BInv => StaysNormal
  BY DEF BInv, Bounded, Dead, Running, Opening, StaysNormal
<1> QED BY <1>1, <1>2, <1>3, PTL DEF Spec
===============================================================================
