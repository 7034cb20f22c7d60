----------------------------- MODULE LinkChain -----------------------------
(* The links of the SDK that dm8168/chain_dec_dis.c creates, from the      *)
(* host's encoded input to the display and back to the host, and how they  *)
(* are joined: each names the link before it and the queue there it takes  *)
(* frames from, and the links its own queues lead to.  A link's creation   *)
(* looks up the link before it (as dsp/app_link.c:39 does), which must     *)
(* then be there.                                                          *)
EXTENDS Integers, Sequences, FiniteSets

VARIABLE links      \* the links that exist

(* The order of the System_linkCreate calls.                               *)
CreateOrder ==
    <<"bitsOutHost", "bitsInVideo", "dec", "ipcOutVideo", "ipcInVpss",
      "framesOutVpss", "framesInDsp", "dspAlg", "dei", "dup",
      "ipcOutVpss", "ipcInVideo", "enc", "bitsOutVideo", "bitsInHost",
      "swMs", "display">>
AllLinks == {CreateOrder[n] : n \in DOMAIN CreateOrder}

(* inQueParams: <<prevLinkId, prevLinkQueId>> of every link but the first. *)
PrevLink ==
    [bitsInVideo   |-> <<"bitsOutHost", "0">>,   dec         |-> <<"bitsInVideo", "0">>,
     ipcOutVideo   |-> <<"dec", "0">>,           ipcInVpss   |-> <<"ipcOutVideo", "0">>,
     framesOutVpss |-> <<"ipcInVpss", "0">>,     framesInDsp |-> <<"framesOutVpss", "0">>,
     dspAlg        |-> <<"framesInDsp", "0">>,   dei         |-> <<"framesOutVpss", "0">>,
     dup           |-> <<"dei", "VIP_SC">>,      swMs        |-> <<"dup", "1">>,
     display       |-> <<"swMs", "0">>,          ipcOutVpss  |-> <<"dup", "0">>,
     ipcInVideo    |-> <<"ipcOutVpss", "0">>,    enc         |-> <<"ipcInVideo", "0">>,
     bitsOutVideo  |-> <<"enc", "0">>,           bitsInHost  |-> <<"bitsOutVideo", "0">>]

(* outQueParams: where each queue leads; framesOutVpss also lends its      *)
(* frames to a processLink, which takes them from queue 0 too.             *)
Joins ==
    {<<"bitsOutHost", "0", "bitsInVideo">>, <<"bitsInVideo", "0", "dec">>,
     <<"dec", "0", "ipcOutVideo">>,         <<"ipcOutVideo", "0", "ipcInVpss">>,
     <<"ipcInVpss", "0", "framesOutVpss">>, <<"framesOutVpss", "0", "dei">>,
     <<"framesOutVpss", "0", "framesInDsp">>,
     <<"framesInDsp", "0", "dspAlg">>,      <<"dei", "VIP_SC", "dup">>,
     <<"dup", "0", "ipcOutVpss">>,          <<"dup", "1", "swMs">>,
     <<"swMs", "0", "display">>,            <<"ipcOutVpss", "0", "ipcInVideo">>,
     <<"ipcInVideo", "0", "enc">>,          <<"enc", "0", "bitsOutVideo">>,
     <<"bitsOutVideo", "0", "bitsInHost">>}

(* What the modules' delete functions know: the ids in their contexts.     *)
VdecContext == {"bitsOutHost", "bitsInVideo", "dec", "ipcOutVideo", "ipcInVpss"}
VcapContext == {"dspAlg", "framesOutVpss", "framesInDsp", "dei"}
VencContext == {"enc", "bitsOutVideo", "bitsInHost", "ipcOutVpss", "ipcInVideo"}
VdisContext == {"swMs", "display"}

ChainInit == links = {}

(* chain_dec_dis_create, the next System_linkCreate.                       *)
CreateLink(n) == links' = links \cup {CreateOrder[n]}

(* Slip: the link that is in no context is forgotten.                      *)
DeleteKnownLinks == links' = links \ (VdecContext \cup VcapContext \cup VencContext \cup VdisContext)
(* chain_dec_dis_delete.                                                   *)
DeleteChain == links' = links \ (VdecContext \cup VcapContext \cup {"dup"} \cup VencContext \cup VdisContext)

ChainTypeOK == links \subseteq AllLinks

(* A link that exists finds the link before it, and that one's queue leads *)
(* to it: each connection is written down twice, far apart, and the two    *)
(* must agree (chain_dec_dis.c:137-380 against the order of 383-404).      *)
LinksAgree ==
    \A l \in links \cap DOMAIN PrevLink :
       /\ PrevLink[l][1] \in links
       /\ <<PrevLink[l][1], PrevLink[l][2], l>> \in Joins
=============================================================================
