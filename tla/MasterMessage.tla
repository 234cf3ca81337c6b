---------------------------- MODULE MasterMessage ----------------------------
(***************************************************************************)
(* The tables of MasterMessage.h: the messages of the master server and    *)
(* its clients.                                                            *)
(***************************************************************************)
EXTENDS Wire, Sequences

RegistrationStatus == [SUCCESS |-> 0, EMAIL_TAKEN |-> 1]
LoginStatus == [SUCCESS |-> 0, WRONG_INPUT |-> 1]
ConnectionResponse == [ACCEPTED |-> 0, REFUSED |-> 1]

CLPing == NoFields
SVPing == NoFields
CLRegister == [email |-> "string", password |-> "string"]
SVRegister == [response |-> "byte"]
CLLogin == [email |-> "string", password |-> "string"]
SVLogin == [response |-> "byte"]
CLFindGame == [player_uid |-> "uint", cl_version_major |-> "byte",
               cl_version_minor |-> "byte", cl_version_build |-> "byte"]
SVFindGame == [player_uid |-> "uint", response |-> "byte"]
SVGameFound == [gs_port |-> "uint"]
CL_ADM_Stats == [adm_key |-> "uint"]
SV_ADM_Stats == [response |-> "string"]
CL_ADM_Shutdown == [adm_key |-> "uint"]
SV_ADM_Shutdown == [response |-> "string"]

\* The numbers of the union's members; 0 is NONE.
Messages ==
    <<"CLPing", "SVPing", "CLRegister", "SVRegister", "CLLogin", "SVLogin", "CLFindGame",
      "SVFindGame", "SVGameFound", "CL_ADM_Stats", "SV_ADM_Stats", "CL_ADM_Shutdown",
      "SV_ADM_Shutdown">>

\* The type a member of the union is read as.
MessagesTraits ==
    [CLPing |-> CLPing, SVPing |-> SVPing, CLRegister |-> CLRegister,
     SVRegister |-> SVRegister, CLLogin |-> CLLogin, SVLogin |-> SVLogin,
     CLFindGame |-> CLFindGame, SVFindGame |-> SVFindGame, SVGameFound |-> SVGameFound,
     CL_ADM_Stats |-> CL_ADM_Stats, SV_ADM_Stats |-> SV_ADM_Stats,
     CL_ADM_Shutdown |-> CL_ADM_Shutdown, SV_ADM_Shutdown |-> SV_ADM_Shutdown]

Message == [sender_id |-> "string", payload_type |-> "byte", payload |-> "union"]

\* CreateMessage of a table of the type called name.
Envelope(name, table) ==
    Create(Message, [sender_id |-> Null, payload |-> table,
                     payload_type |-> CHOOSE k \in DOMAIN Messages : Messages[k] = name])

PayloadName(message) ==
    LET type == Field(Message, message, "payload_type")
    IN IF type \in DOMAIN Messages THEN Messages[type] ELSE Null

\* A field of the payload, read as the type the envelope says it is.
PayloadField(message, f) ==
    Field(MessagesTraits[PayloadName(message)], Field(Message, message, "payload"), f)

\* VerifyMessages: a message with a payload of an unknown type is dropped.
VerifyMessages(message) ==
    Field(Message, message, "payload_type") \in 0 .. Len(Messages)
=============================================================================
