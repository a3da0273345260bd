------------------------------ MODULE NasPacket ------------------------------
(***************************************************************************)
(* The packets of the S1AP and N4 interfaces (packet.cpp, security.cpp):   *)
(* how a sender appends, encrypts and signs the items of a message, and    *)
(* how the receiver checks, decrypts and extracts them.  A cell of a       *)
(* packet is one item, with the C++ type that decides its width; an item   *)
(* that is read with another type than it was written with is garbage.     *)
(***************************************************************************)
EXTENDS Naturals, Sequences, SequencesExt

CONSTANTS
    BUF_SIZE,     \* 1024 in the code
    StrLen,       \* length of an address in dotted notation, at most 15
    RanIds        \* S1AP identifiers a RAN may use

ASSUME NasPacketAssumption ==
    BUF_SIZE \in Nat /\ StrLen \in Nat /\ RanIds # {} /\ RanIds \subseteq Nat \ {0}

Cell(type, val) == <<type, val>>
Zero    == Cell("zero", 0)       \* the buffer beyond what was written
Garbage == <<>>

\* Width of a cell in bytes; AES in CBC mode pads to the next multiple of 16.
RECURSIVE WidthOf(_)
WidthOf(c) ==
    CASE c[1] \in {"bool", "u8", "zero"} -> 1
      [] c[1] = "u16"            -> 2
      [] c[1] \in {"int", "u32"} -> 4
      [] c[1] \in {"u64", "vec"} -> 8
      [] c[1] = "str"            -> 4 + StrLen
      [] c[1] = "s1ap"           -> 12
      [] c[1] = "gtp"            -> 16
      [] c[1] = "hmac"           -> 20
      [] c[1] = "enc"            -> 16 * (FoldLeft(LAMBDA n, d : n + WidthOf(d), 0, c[2]) \div 16 + 1)
Width(data) == FoldLeft(LAMBDA n, c : n + WidthOf(c), 0, data)

-----------------------------------------------------------------------------
(***************************************************************************)
(* Packet: data[0..len), data_ptr, and the header last received or sent.   *)
(***************************************************************************)
NoHdr   == [type |-> 0, enb |-> 0, mme |-> 0]
NewPacket == [data |-> <<>>, data_ptr |-> 0, s1ap_hdr |-> NoHdr]

\* An item is written at data_ptr, whatever is there; len grows by its width.
append_item(p, c) ==
    [p EXCEPT !.data = [i \in 1 .. (Len(p.data) + 1) |->
                            IF i = p.data_ptr + 1 THEN c
                            ELSE IF i <= Len(p.data) THEN p.data[i] ELSE Zero],
              !.data_ptr = @ + 1]

prepend_item(p, c) == [p EXCEPT !.data = <<c>> \o @, !.data_ptr = @ + 1]

\* The cell at data_ptr, or the zeros behind the end.
Next_(p) == IF p.data_ptr < Len(p.data) THEN p.data[p.data_ptr + 1] ELSE Zero

Advance(p) == [p EXCEPT !.data_ptr = @ + 1]

extract_item(p, type) == IF Next_(p)[1] = type THEN Next_(p)[2] ELSE Garbage

truncate(p) == [p EXCEPT !.data = SubSeq(@, p.data_ptr + 1, Len(@)), !.data_ptr = 0]

clear_pkt(p) == [p EXCEPT !.data = <<>>, !.data_ptr = 0]

prepend_s1ap_hdr(p, type, enb, mme) ==
    LET h == [type |-> type, enb |-> enb, mme |-> mme]
    IN  [prepend_item(p, Cell("s1ap", h)) EXCEPT !.s1ap_hdr = h]
extract_s1ap_hdr(p) ==
    [Advance(p) EXCEPT !.s1ap_hdr = IF Next_(p)[1] = "s1ap" THEN Next_(p)[2] ELSE NoHdr]

prepend_gtp_hdr(p, type) == prepend_item(p, Cell("gtp", type))
extract_gtp_hdr(p) == Advance(p)

-----------------------------------------------------------------------------
(***************************************************************************)
(* Crypt and Integrity.                                                    *)
(***************************************************************************)
enc(p) == [p EXCEPT !.data = <<Cell("enc", p.data)>>, !.data_ptr = 0]

\* OpenSSL refuses what it did not encrypt, and the program exits.
CanDec(p) == LET d == truncate(p).data IN Len(d) = 1 /\ d[1][1] = "enc"
dec(p) == [p EXCEPT !.data = truncate(p).data[1][2], !.data_ptr = 0]

get_hmac(data) == Cell("hmac", data)
add_hmac(p) == prepend_item(p, get_hmac(p.data))
rem_hmac(p) == truncate(Advance(p))
hmac_check(p) == Next_(p) = get_hmac(rem_hmac(p).data)

\* What a handler does between its last append and the header.
Protect(p, prot) ==
    CASE prot = "none" -> p
      [] prot = "hmac" -> add_hmac(p)
      [] prot = "both" -> add_hmac(enc(p))

-----------------------------------------------------------------------------
(***************************************************************************)
(* The items each function appends, and the ones its peer extracts.        *)
(***************************************************************************)
Leg(from, to, hdr, type, prot, out, in) ==
    [from |-> from, to |-> to, hdr |-> hdr, type |-> type, prot |-> prot, out |-> out, in |-> in]
Up(type, prot, out, in)   == Leg("RAN", "AMF", "s1ap", type, prot, out, in)
Down(type, prot, out, in) == Leg("AMF", "RAN", "s1ap", type, prot, out, in)
N4(from, type, out, in)   == Leg(from, "UPF", "gtp", type, "none", out, in)
N4Ack(to, type, out, in)  == Leg("UPF", to, "gtp", type, "none", out, in)

ran_initial_attach == <<"u64", "u64", "u64", "u16">>
amf_initial_attach == <<"u64", "u64", "u64", "u16">>
amf_autn_req == <<"u64", "u64", "u64">>
ran_authenticate == <<"u64", "u64", "u64">>
ran_autn_res == <<"u64">>
amf_handle_autn == <<"u64">>
amf_security_mode_cmd == <<"u64", "u16", "u64", "u64">>
ran_set_security == <<"u64", "u16", "u64", "u64">>
ran_security_complete == <<"bool">>
amf_security_complete == <<"bool">>
amf_attach_accept == <<"u64", "u8", "u8", "u32", "u64", "u16", "int", "vec", "u64",
                        "str", "str", "int", "bool">>
ran_set_eps_session == <<"u64", "u8", "u8", "u32", "u64", "u16", "int", "vec", "u64",
                        "str", "str", "int", "bool">>
ran_attach_complete == <<"u8", "u32">>

\* Mutant of amf_attach_complete: the two items in the other order.
CompleteSwapped == <<"u32", "u8">>

amf_attach_complete == <<"u8", "u32">>

ran_detach_req == <<"u64", "u64", "u64">>
amf_detach == <<"u64", "u64", "u64">>
amf_detach_rsp == <<"bool">>
ran_detach_rsp == <<"bool">>
ran_initiate_handover == <<"int", "u16", "u16", "u32", "u32">>
amf_request_target == <<"int", "u16", "u16", "u32", "u32">>
amf_to_target == <<"u16", "u32", "u32", "u32">>
ran_handle_handover == <<"u16", "u32", "u32", "u32">>
smf_create_session == <<"u32", "u64", "u8", "u64", "u64">>
upf_create_session == <<"u32", "u64", "u8", "u64", "u64">>
upf_create_session_rsp == <<"u32", "str", "u32">>
smf_create_session_rsp == <<"u32", "str", "u32">>
smf_modify_bearer == <<"u8", "u32", "str", "int">>
upf_modify_bearer == <<"u8", "u32", "str", "int">>
smf_detach == <<"u8", "u64">>
upf_detach == <<"u8", "u64">>
upf_indirect_rsp == <<"bool", "u32">>
amf_indirect_rsp == <<"bool", "u32">>

\* The exchanges, each with the packet object of the AMF or the SMF that all
\* its messages are built in.
Attach       == <<Up(1, "none", ran_initial_attach, amf_initial_attach),
                  Down(1, "none", amf_autn_req, ran_authenticate)>>
Authenticate == <<Up(2, "none", ran_autn_res, amf_handle_autn),
                  Down(2, "hmac", amf_security_mode_cmd, ran_set_security)>>
Secure       == <<Up(3, "both", ran_security_complete, amf_security_complete),
                  Down(3, "both", amf_attach_accept, ran_set_eps_session)>>
Complete     == <<Up(4, "both", ran_attach_complete, amf_attach_complete)>>
Detach       == <<Up(5, "both", ran_detach_req, amf_detach),
                  Down(5, "both", amf_detach_rsp, ran_detach_rsp)>>
HoRequest    == <<Up(7, "none", ran_initiate_handover, amf_request_target),
                  Down(7, "none", amf_to_target, ran_handle_handover)>>
HoTunnel     == <<Up(8, "none", <<"u32">>, <<"u32">>), N4("AMF", 4, <<"u32">>, <<"u32">>),
                  N4Ack("AMF", 4, upf_indirect_rsp, amf_indirect_rsp),
                  Down(8, "none", <<"u32">>, <<"u32">>)>>
HoComplete   == <<Up(9, "none", <<>>, <<>>), N4("AMF", 5, <<"int">>, <<>>),
                  N4Ack("AMF", 5, <<"bool">>, <<"bool">>), Down(9, "none", <<"bool">>, <<>>)>>
HoTeardown   == <<Up(10, "none", <<"u32">>, <<"u32">>), N4("AMF", 6, <<"u32">>, <<"u32">>),
                  N4Ack("AMF", 6, <<"bool">>, <<"bool">>)>>
N4Create     == <<N4("SMF", 1, smf_create_session, upf_create_session),
                  N4Ack("SMF", 1, upf_create_session_rsp, smf_create_session_rsp)>>
N4Modify     == <<N4("SMF", 2, smf_modify_bearer, upf_modify_bearer),
                  N4Ack("SMF", 2, <<"bool">>, <<"bool">>)>>
N4Detach     == <<N4("SMF", 3, smf_detach, upf_detach), N4Ack("SMF", 3, <<"bool">>, <<"bool">>)>>

Flows == {Attach, Authenticate, Secure, Complete, Detach, HoRequest, HoTunnel, HoComplete,
          HoTeardown, N4Create, N4Modify, N4Detach}

-----------------------------------------------------------------------------
VARIABLES
    flow,         \* the legs still to do
    step,         \* where the current leg is
    pkt,          \* pkt[a]: the Packet object of actor a
    got,          \* the values the receiver extracted
    ran,          \* identifiers of the UE at its RAN
    eNodeB_id,    \* member of Ran that nobody sets
    apn,          \* ue_ctx[guti].apn_in_use at the AMF
    exited        \* a check failed and the program exited

nasVars == <<flow, step, pkt, got, ran, eNodeB_id, apn, exited>>

Actors     == {"RAN", "AMF", "SMF", "UPF"}
NoApn      == <<0>>
leg        == flow[1]
Tx         == pkt[leg.from]
Rx         == pkt[leg.to]

NasTypeOK ==
    /\ step \in {"idle", "append", "protect", "send", "hdr", "check", "extract"}
    /\ \A a \in Actors : pkt[a].data_ptr \in 0 .. Len(pkt[a].data)
    /\ \A a \in Actors : Width(pkt[a].data) + 4 <= BUF_SIZE
    /\ ran \in [enb : RanIds, mme : RanIds]
    /\ exited \in BOOLEAN

NasStart(ids, enb) ==
    /\ flow = <<>> /\ step = "idle"
    /\ pkt = [a \in Actors |-> NewPacket]
    /\ got = <<>>
    /\ ran = ids
    /\ eNodeB_id = enb
    /\ apn = NoApn
    /\ exited = FALSE

\* Any identifiers of the UE, and whatever the member eNodeB_id happens to hold.
NasInit == \E ids \in [enb : RanIds, mme : RanIds], enb \in {1, 3} : NasStart(ids, enb)

\* What item k of the message holds.
Item(l, k) == IF l.hdr = "s1ap" /\ l.type = 7 /\ l.from = "RAN" /\ k = 2
              THEN <<eNodeB_id>> ELSE <<l.type, l.from, k>>

Begin ==
    /\ step = "idle" /\ ~ exited
    /\ \E f \in Flows :
        /\ flow' = f
        /\ pkt' = [pkt EXCEPT ![f[1].from] = clear_pkt(@)]
    /\ step' = "append" /\ got' = <<>>
    /\ UNCHANGED <<ran, eNodeB_id, apn, exited>>

AppendStep ==
    /\ step = "append"
    /\ LET k == Tx.data_ptr + 1 IN
        IF k <= Len(leg.out)
        THEN /\ pkt' = [pkt EXCEPT ![leg.from] = append_item(@, Cell(leg.out[k], Item(leg, k)))]
             /\ UNCHANGED step
        ELSE /\ pkt' = [pkt EXCEPT ![leg.from] = Protect(@, leg.prot)]
             /\ step' = "send"
    /\ UNCHANGED <<flow, got, ran, eNodeB_id, apn, exited>>

\* The header: the RAN's own identifiers, and at the AMF those of the packet
\* it received, which clear_pkt() left in place; in the first exchange the RAN
\* has no identifier of the AMF yet and the AMF assigns it.  rcv() clears the
\* packet of the receiver and reads the data into it.
SendStep ==
    /\ step = "send"
    /\ LET h == IF leg.from = "RAN" THEN [ran EXCEPT !.mme = IF leg.type = 1 THEN 0 ELSE @]
                ELSE [Tx.s1ap_hdr EXCEPT !.mme = IF leg.type = 1 THEN ran.mme ELSE @]
           p == IF leg.hdr = "s1ap" THEN prepend_s1ap_hdr(Tx, leg.type, h.enb, h.mme)
                ELSE prepend_gtp_hdr(Tx, leg.type)
       IN  pkt' = [pkt EXCEPT ![leg.from] = p, ![leg.to] = [clear_pkt(@) EXCEPT !.data = p.data]]
    /\ step' = "hdr"
    /\ UNCHANGED <<flow, got, ran, eNodeB_id, apn, exited>>

HdrStep ==
    /\ step = "hdr"
    /\ pkt' = [pkt EXCEPT ![leg.to] = IF leg.hdr = "s1ap" THEN extract_s1ap_hdr(@)
                                      ELSE extract_gtp_hdr(@)]
    /\ step' = "check"
    /\ UNCHANGED <<flow, got, ran, eNodeB_id, apn, exited>>

\* Amf::handle_location_update() does not look at the AUSF's answer: it reads a
\* Diameter header and the access point from its copy of the RAN's packet.
LocationUpdate(p) == extract_item(Advance(p), "u64")

\* hmac_check() and dec(); a failure of either ends the program.
CheckStep ==
    /\ step = "check"
    /\ LET p == IF leg.prot = "none" THEN Rx ELSE rem_hmac(Rx)
           good == /\ leg.prot # "none" => hmac_check(Rx)
                   /\ leg.prot = "both" => CanDec(p)
       IN  /\ exited' = ~ good
           /\ pkt' = [pkt EXCEPT ![leg.to] = IF ~ good THEN Rx
                                             ELSE IF leg.prot = "both" THEN dec(p) ELSE p]
    /\ apn' = IF leg.hdr = "s1ap" /\ leg.type = 3 /\ leg.to = "AMF" /\ ~ exited'
              THEN LocationUpdate(Rx) ELSE apn
    /\ step' = IF exited' THEN "idle" ELSE "extract"
    /\ UNCHANGED <<flow, got, ran, eNodeB_id>>

\* extract_item() one by one; then the receiver clears the packet and begins
\* the next leg, if there is one.
ExtractStep ==
    /\ step = "extract"
    /\ LET k == Len(got) + 1 IN
        IF k <= Len(leg.in)
        THEN /\ got' = Append(got, extract_item(Rx, leg.in[k]))
             /\ pkt' = [pkt EXCEPT ![leg.to] = Advance(@)]
             /\ UNCHANGED <<flow, step>>
        ELSE /\ flow' = Tail(flow)
             /\ step' = IF Len(flow) > 1 THEN "append" ELSE "idle"
             /\ pkt' = IF Len(flow) > 1 THEN [pkt EXCEPT ![leg.to] = clear_pkt(@)] ELSE pkt
             /\ got' = <<>>
    /\ UNCHANGED <<ran, eNodeB_id, apn, exited>>

NasNext == Begin \/ AppendStep \/ SendStep \/ HdrStep \/ CheckStep \/ ExtractStep

NasSpec == NasInit /\ [][NasNext]_nasVars

-----------------------------------------------------------------------------
\* What a receiver extracts is what the sender appended, item by item: the two
\* ends of every interface agree on the order and the types of the items.
ItemsAgree ==
    step = "extract" => \A k \in 1 .. Len(got) : got[k] = Item(leg, k)

\* A packet nobody touched passes its checks: nothing exits.
ChecksPass == ~ exited

\* An answer of the AMF carries the identifiers of the UE that asked, also
\* when the AMF used the packet to talk to the UPF in between.
HeaderEcho ==
    (step \in {"check", "extract"} /\ leg.hdr = "s1ap") =>
        Rx.s1ap_hdr = [type |-> leg.type, enb |-> ran.enb,
                       mme |-> IF leg.type = 1 /\ leg.to = "AMF" THEN 0 ELSE ran.mme]

\* Every message of every exchange reaches its receiver as it was meant, in
\* whatever order the exchanges follow each other in the same packet objects.
PacketsAgree == NasTypeOK /\ ItemsAgree /\ ChecksPass /\ HeaderEcho
=============================================================================
