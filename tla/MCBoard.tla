------------------------------- MODULE MCBoard -------------------------------
(* The parts of the boards that share no state with one another, one of    *)
(* them at work in each behaviour: the parameters and their EEPROM, the    *)
(* oil pump, the gate drivers, the resolver, the operating mode and the    *)
(* way from the pedals to a torque.                                        *)
EXTENDS ParamStorage, OilPump, GateDriver, Encoder, OperatingMode, Driving

VARIABLE part    \* the one at work

MCDefault == <<1, 1, 0, 0>>
MCOldBlocks == {<<2, Blank, 1, 1>>}
MCMinimumOilTemp == -30
MCChips == {1, 2}
MCSetup == <<[reg |-> "CFG1", value |-> 1, chips |-> {1, 2}],
             [reg |-> "CFG4", value |-> 2, chips |-> {1}],
             [reg |-> "CFG4", value |-> 3, chips |-> {2}]>>
MCStatusRegs == <<"STATUS1", "STATUS2">>

MCDriverSetup(d, c, i, dual, can) ==
    [dirmode |-> d, cruisemode |-> c, idlemode |-> i, dual |-> dual, can |-> can]
MCDriverSetups == {MCDriverSetup("button", "switch", "off", TRUE, FALSE),
                   MCDriverSetup("switch", "button", "noBrake", FALSE, FALSE),
                   MCDriverSetup("defaultForward", "can", "cruise", TRUE, TRUE)}
MCPotmin == <<300, 900>>
MCPotmax == <<700, 500>>
MCDigits == {<<700, 500>>, <<0, 880>>, <<500, 1200>>, <<0, 1200>>}
MCCondition(b, u, i, f, t) == [bms |-> b, udc |-> u, idc |-> i, frq |-> f, temp |-> t]
MCConditions ==
    {MCCondition(FALSE, 400, -50, 0, <<20, 20>>), MCCondition(TRUE, 308, 100, 39, <<20, 20>>),
     MCCondition(FALSE, 295, 0, 0, <<81, 20>>), MCCondition(TRUE, 500, 0, 40, <<20, 82>>)}
MCbrknompedal == -500
MCbrkmax == -300
MCbrkcruise == -300
MCthrotmin == -400
MCbmslimlow == -1
MCidcmin == -50

idle(p) ==
  /\ p # "storage" => UNCHANGED storageVars
  /\ p # "oil" => UNCHANGED oilVars
  /\ p # "gate" => UNCHANGED gateVars
  /\ p # "encoder" => UNCHANGED encoderVars
  /\ p # "mode" => UNCHANGED modeVars
  /\ p # "driving" => UNCHANGED drivingVars
On(p) == part = p /\ part' = p /\ idle(p)

(* A part that is not at work starts in one state only.                    *)
BoardInit ==
  /\ part \in {"storage", "oil", "gate", "encoder", "mode", "driving"}
  /\ StorageInit /\ OilInit /\ GateInit /\ EncoderInit /\ ModeInit /\ DrivingInit
  /\ part # "storage" => cells = Nothing
  /\ part # "encoder" => rotor = 0
  /\ part # "mode" => tripmode = "allOff"
  /\ part # "driving" => setup.cruisemode = "can"

BoardNext ==
  \/ On("storage") /\ StorageNext
  \/ On("oil") /\ OilNext
  \/ On("gate") /\ GateNext
  \/ On("encoder") /\ EncoderNext
  \/ On("mode") /\ ModeNext
  \/ On("driving") /\ DrivingNext

boardVars == <<part, storageVars, oilVars, gateVars, encoderVars, modeVars, drivingVars>>
BoardSpec == BoardInit /\ [][BoardNext]_boardVars

(* Every variable of every part keeps its type.                            *)
BoardTypeOK ==
  /\ StorageTypeOK /\ OilTypeOK /\ GateTypeOK
  /\ EncoderTypeOK /\ ModeTypeOK /\ DrivingTypeOK
=============================================================================
