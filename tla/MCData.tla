--------------------------------- MODULE MCData ---------------------------------
(***************************************************************************)
(* The conversions of values: payloads of the bridge (Payload), bytes and  *)
(* text (TextEncoding), arguments of interfaces (WebIdl).  They share       *)
(* nothing; `scene' chooses at the start whose behaviour is followed.       *)
(***************************************************************************)
EXTENDS TextEncoding, Payload, WebIdl

CONSTANT Scenes
VARIABLE scene

MCInit ==
    /\ scene \in Scenes /\ Init /\ PayloadInit /\ IdlInit
    /\ scene # "text" => fatal /\ ignoreBOM
    /\ scene # "payload" => converters = {} /\ limit = <<>>
MCNext ==
    \/ scene = "text" /\ Next /\ UNCHANGED <<scene, payloadVars, idlVars>>
    \/ scene = "payload" /\ PayloadNext /\ UNCHANGED <<scene, vars, idlVars>>
    \/ scene = "idl" /\ IdlNext /\ UNCHANGED <<scene, vars, payloadVars>>
MCSpec == MCInit /\ [][MCNext]_<<scene, vars, payloadVars, idlVars>>
=============================================================================
