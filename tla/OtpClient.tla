------------------------------- MODULE OtpClient -------------------------------
(***************************************************************************)
(* main of lab4/code.c: it asks for a one-time password, shows it to be    *)
(* right on a second connection and uploads it on a third.  The server is  *)
(* external: it sends its answers in segments cut anywhere, and after the  *)
(* answer to a request with keep-alive it may or may not close.            *)
(***************************************************************************)
EXTENDS Segments

CONSTANTS
  HeaderLen,          \* bytes of the answer before the password
  RestLen,            \* bytes of the password after the id it begins with
  ReplyLen            \* bytes of the answers to the other two requests

ASSUME LengthAssumption == {HeaderLen, RestLen, ReplyLen} \subseteq Nat /\ ReplyLen > 0

VARIABLES
  closes,             \* external: whether the server closes after an answer
  otp, reads,         \* the password; reads made of the present answer
  otpMode,            \* what the client waits for: the answer to which request
  cut                 \* whether a segment has ended within the id (in no program)

otpVars == <<stream, buffer, closes, otp, reads, otpMode, cut>>

\* "110550142" in two parts; head, password and reply are told apart.
Id       == <<1, 2>>
Header   == [k \in 1..HeaderLen |-> 3]
Password == Id \o [k \in 1..RestLen |-> 3 + k]
Reply    == [k \in 1..ReplyLen |-> 3]

OtpTypeOK ==
  /\ stream \in Seq(1..3+RestLen) /\ buffer \in [1..BufSize+1 -> 0..3+RestLen]
  /\ closes \in BOOLEAN /\ otp \in Seq(1..3+RestLen) /\ reads \in 0..1
  /\ otpMode \in {"otp", "verify", "upload", "end"} /\ cut \in BOOLEAN

-----------------------------------------------------------------------------
\* The next connection: the request is sent and the answer comes.
Request(next) == otpMode' = next /\ stream' = (IF next = "end" THEN <<>> ELSE Reply) /\ reads' = 0

HasId(s)        == Has(s, Id)

\* recv, and strstr in the segment received: until it has the id in it.
RecvOn ==
  /\ otpMode = "otp"
  /\ \E seg \in Segment : Read(seg)
  /\ ~HasId(CString(buffer'))
  /\ cut' = (cut \/ Len(stream') = RestLen + 1)
  /\ UNCHANGED <<closes, otp, reads, otpMode>>

\* The rest of the segment is the password; the connection is closed with
\* whatever is still to come on it.
RecvOtp ==
  /\ otpMode = "otp" /\ stream # <<>>
  /\ \E n \in 1..Len(stream) :
       /\ n <= BufSize
       /\ buffer' = Filled(buffer, SubSeq(stream, 1, n))
  /\ HasId(CString(buffer'))
  /\ otp' = From(CString(buffer'), Id)
  /\ Request("verify") /\ UNCHANGED <<closes, cut>>

\* Mutant: n = 0 is not looked for.
ReadsOn   == FALSE
StopsAt0  == stream = <<>> /\ closes

\* The end of the connection: go on with what there is, which is nothing.
RecvEnd ==
  /\ otpMode = "otp" /\ StopsAt0
  /\ Request("verify") /\ UNCHANGED <<buffer, closes, otp, cut>>

\* After the verification and the upload there are two reads each, whatever they
\* return; the upload is the only request that asks the server to close.
ReplyEnds == stream = <<>> /\ (closes \/ otpMode = "upload")

Twice  == reads + 1 = 2

NextMode == IF otpMode = "verify" THEN "upload" ELSE "end"

ReadReply ==
  /\ otpMode \in {"verify", "upload"}
  /\ \E seg \in Segment : Read(seg)
  /\ ~Twice /\ reads' = reads + 1
  /\ UNCHANGED <<closes, otp, otpMode, cut>>

ReadLast ==
  /\ otpMode \in {"verify", "upload"} /\ Twice
  /\ \/ \E n \in 1..Len(stream) : n <= BufSize /\ buffer' = Filled(buffer, SubSeq(stream, 1, n))
     \/ ReplyEnds /\ buffer' = Filled(buffer, <<>>)
  /\ Request(NextMode) /\ UNCHANGED <<closes, otp, cut>>

-----------------------------------------------------------------------------
OtpBegins ==
  /\ closes \in BOOLEAN /\ otp = <<>> /\ reads = 0 /\ otpMode = "otp" /\ cut = FALSE
OtpInit == SegmentsInit(Header \o Password) /\ OtpBegins

OtpNext == RecvOn \/ RecvOtp \/ RecvEnd \/ ReadReply \/ ReadLast
OtpSpec == OtpInit /\ [][OtpNext]_otpVars /\ WF_otpVars(OtpNext)

-----------------------------------------------------------------------------
\* What is taken for the password is the beginning of it or nothing: nothing of
\* the header, and nothing that an earlier, longer segment has left in buffer.
OtpIsPrefix ==
  /\ otp = SubSeq(Password, 1, Len(otp))
  /\ otp # <<>> => Len(otp) >= Len(Id)

\* Only a cut within the id can lose the password or have the client and a
\* server that keeps the connection open wait for each other: as long as there is
\* none the client has not read past the password.
LostOnlyIfCut ==
  /\ otpMode = "otp" => /\ RestOf(stream, Header \o Password) /\ otp = <<>>
                        /\ Len(stream) < Len(Password) => cut
  /\ otpMode # "otp" /\ otp = <<>> => cut

\* The password is taken right, or a segment was cut at the wrong place.
OtpInv == OtpTypeOK /\ OtpIsPrefix /\ LostOnlyIfCut

\* With a server that closes, all three requests are made.
Finishes == closes => <>(otpMode = "end")
=============================================================================
