-------------------------------- MODULE MCBus --------------------------------
(* The parts of the CAN side that share no state with one another, one of  *)
(* them at work in each behaviour: the transmit mailbox, the filters, the  *)
(* logger, its text and the coding of mapped values.                       *)
EXTENDS CanSend, CanFilters, CanLogger, CanLoggerText, CanMapCoding

VARIABLE part    \* the one at work

MCRequest(n) == IF n = 1 THEN "r1" ELSE "r2"
MCStdIds == {"x", "y", "ctrl", "r1", "r2"}
MCValues(bits) == {Bits, {0}, {bits - 1}}
MCOtherValues(bits) == {Bits}

idle(p) ==
  /\ p # "send" => UNCHANGED vars
  /\ p # "filters" => UNCHANGED filterVars
  /\ p # "logger" => UNCHANGED loggerVars
  /\ p # "text" => UNCHANGED textVars
  /\ p # "coding" => UNCHANGED codingVars
On(p) == part = p /\ part' = p /\ idle(p)

BusInit ==
  /\ Init /\ FilterInit /\ LoggerInit /\ TextInit
  /\ \/ /\ part \in {"send", "filters", "logger", "text"}
        /\ message = <<>> /\ words = <<NoBits, NoBits>> /\ packed = 0 /\ received = <<>>
     \/ part = "coding" /\ CodingInit

BusNext ==
  \/ On("send") /\ Next
  \/ On("filters") /\ FilterNext
  \/ On("logger") /\ LoggerNext
  \/ On("text") /\ TextNext
  \/ On("coding") /\ CodingNext

busVars == <<part, vars, filterVars, loggerVars, textVars, codingVars>>

(* The fairness of CanSend and CanLogger. *)
BusSpec ==
  /\ BusInit /\ [][BusNext]_busVars
  /\ WF_busVars(On("send") /\ Controller)
  /\ \A c \in Ctx : WF_busVars(On("send") /\ Send(c))
  /\ WF_busVars(On("logger") /\ Tick)

(* Every variable of every part keeps its type: no list, buffer or counter *)
(* grows past its bound and no bit is set past its width.                  *)
BusTypeOK == TypeOK /\ FilterTypeOK /\ LoggerTypeOK /\ TextTypeOK /\ CodingTypeOK
=============================================================================
