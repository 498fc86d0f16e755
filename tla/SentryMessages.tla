------------------------------ MODULE SentryMessages ------------------------------
(***************************************************************************)
(* The messages of the Sentry service (sentry.pb.h, sentry.pb.cc): for each *)
(* class, what its generated functions do to which field, one table for     *)
(* each function, read as ProtoFields says.                                 *)
(***************************************************************************)
EXTENDS ProtoFields

OutboundMessageData_accessors ==
    [id |-> "enum", data |-> "bytes"]
OutboundMessageData_copied == {"data", "id"}
OutboundMessageData_Clear == {"data", "id"}
OutboundMessageData_Parse ==
    [id |-> {8}, data |-> {18}]
OutboundMessageData_Serialize == <<<<1, "id">>, <<2, "data">>>>
OutboundMessageData_ByteSizeLong == <<"data", "id">>
OutboundMessageData_MergeFrom == {"data", "id"}
OutboundMessageData_InternalSwap == {"data", "id"}
OutboundMessageData ==
    MessageClass(OutboundMessageData_accessors, OutboundMessageData_copied, OutboundMessageData_Clear,
        OutboundMessageData_Parse, OutboundMessageData_Serialize, OutboundMessageData_ByteSizeLong,
        OutboundMessageData_MergeFrom, OutboundMessageData_InternalSwap)

SendMessageByMinBlockRequest_members == <<"data", "min_block">>
SendMessageByMinBlockRequest_accessors ==
    [data |-> "OutboundMessageData", min_block |-> "uint64"]
SendMessageByMinBlockRequest_copied == {"data", "min_block"}
SendMessageByMinBlockRequest_Clear == {"data", "min_block"}
SendMessageByMinBlockRequest_Parse ==
    [data |-> {10}, min_block |-> {16}]
SendMessageByMinBlockRequest_Serialize == <<<<1, "data">>, <<2, "min_block">>>>
SendMessageByMinBlockRequest_ByteSizeLong == <<"data", "min_block">>
SendMessageByMinBlockRequest_MergeFrom == {"min_block", "data"}
SendMessageByMinBlockRequest_InternalSwap == Span(SendMessageByMinBlockRequest_members, "data", "min_block")
SendMessageByMinBlockRequest ==
    MessageClass(SendMessageByMinBlockRequest_accessors, SendMessageByMinBlockRequest_copied, SendMessageByMinBlockRequest_Clear,
        SendMessageByMinBlockRequest_Parse, SendMessageByMinBlockRequest_Serialize, SendMessageByMinBlockRequest_ByteSizeLong,
        SendMessageByMinBlockRequest_MergeFrom, SendMessageByMinBlockRequest_InternalSwap)

SendMessageByIdRequest_accessors ==
    [data |-> "OutboundMessageData", peer_id |-> "bytes"]
SendMessageByIdRequest_copied == {"peer_id", "data"}
SendMessageByIdRequest_Clear == {"peer_id", "data"}
SendMessageByIdRequest_Parse ==
    [data |-> {10}, peer_id |-> {18}]
SendMessageByIdRequest_Serialize == <<<<1, "data">>, <<2, "peer_id">>>>
SendMessageByIdRequest_ByteSizeLong == <<"peer_id", "data">>
SendMessageByIdRequest_MergeFrom == {"peer_id", "data"}
SendMessageByIdRequest_InternalSwap == {"peer_id", "data"}
SendMessageByIdRequest ==
    MessageClass(SendMessageByIdRequest_accessors, SendMessageByIdRequest_copied, SendMessageByIdRequest_Clear,
        SendMessageByIdRequest_Parse, SendMessageByIdRequest_Serialize, SendMessageByIdRequest_ByteSizeLong,
        SendMessageByIdRequest_MergeFrom, SendMessageByIdRequest_InternalSwap)

SendMessageToRandomPeersRequest_members == <<"data", "max_peers">>
SendMessageToRandomPeersRequest_accessors ==
    [data |-> "OutboundMessageData", max_peers |-> "uint64"]
SendMessageToRandomPeersRequest_copied == {"data", "max_peers"}
SendMessageToRandomPeersRequest_Clear == {"data", "max_peers"}
SendMessageToRandomPeersRequest_Parse ==
    [data |-> {10}, max_peers |-> {16}]
SendMessageToRandomPeersRequest_Serialize == <<<<1, "data">>, <<2, "max_peers">>>>
SendMessageToRandomPeersRequest_ByteSizeLong == <<"data", "max_peers">>
SendMessageToRandomPeersRequest_MergeFrom == {"max_peers", "data"}
SendMessageToRandomPeersRequest_InternalSwap == Span(SendMessageToRandomPeersRequest_members, "data", "max_peers")
SendMessageToRandomPeersRequest ==
    MessageClass(SendMessageToRandomPeersRequest_accessors, SendMessageToRandomPeersRequest_copied, SendMessageToRandomPeersRequest_Clear,
        SendMessageToRandomPeersRequest_Parse, SendMessageToRandomPeersRequest_Serialize, SendMessageToRandomPeersRequest_ByteSizeLong,
        SendMessageToRandomPeersRequest_MergeFrom, SendMessageToRandomPeersRequest_InternalSwap)

SentPeers_accessors ==
    [peers |-> "repeated_bytes"]
SentPeers_copied == {"peers"}
SentPeers_Clear == {"peers"}
SentPeers_Parse ==
    [peers |-> {10}]
SentPeers_Serialize == <<<<1, "peers">>>>
SentPeers_ByteSizeLong == <<"peers">>
SentPeers_MergeFrom == {"peers"}
SentPeers_InternalSwap == {"peers"}
SentPeers ==
    MessageClass(SentPeers_accessors, SentPeers_copied, SentPeers_Clear,
        SentPeers_Parse, SentPeers_Serialize, SentPeers_ByteSizeLong,
        SentPeers_MergeFrom, SentPeers_InternalSwap)

PenalizePeerRequest_accessors ==
    [peer_id |-> "bytes", penalty |-> "enum"]
PenalizePeerRequest_copied == {"peer_id", "penalty"}
PenalizePeerRequest_Clear == {"peer_id", "penalty"}
PenalizePeerRequest_Parse ==
    [peer_id |-> {10}, penalty |-> {16}]
PenalizePeerRequest_Serialize == <<<<1, "peer_id">>, <<2, "penalty">>>>
PenalizePeerRequest_ByteSizeLong == <<"peer_id", "penalty">>
PenalizePeerRequest_MergeFrom == {"peer_id", "penalty"}
PenalizePeerRequest_InternalSwap == {"peer_id", "penalty"}
PenalizePeerRequest ==
    MessageClass(PenalizePeerRequest_accessors, PenalizePeerRequest_copied, PenalizePeerRequest_Clear,
        PenalizePeerRequest_Parse, PenalizePeerRequest_Serialize, PenalizePeerRequest_ByteSizeLong,
        PenalizePeerRequest_MergeFrom, PenalizePeerRequest_InternalSwap)

PeerMinBlockRequest_accessors ==
    [peer_id |-> "bytes", min_block |-> "uint64"]
PeerMinBlockRequest_copied == {"peer_id", "min_block"}
PeerMinBlockRequest_Clear == {"peer_id", "min_block"}
PeerMinBlockRequest_Parse ==
    [peer_id |-> {10}, min_block |-> {16}]
PeerMinBlockRequest_Serialize == <<<<1, "peer_id">>, <<2, "min_block">>>>
PeerMinBlockRequest_ByteSizeLong == <<"peer_id", "min_block">>
PeerMinBlockRequest_MergeFrom == {"peer_id", "min_block"}
PeerMinBlockRequest_InternalSwap == {"peer_id", "min_block"}
PeerMinBlockRequest ==
    MessageClass(PeerMinBlockRequest_accessors, PeerMinBlockRequest_copied, PeerMinBlockRequest_Clear,
        PeerMinBlockRequest_Parse, PeerMinBlockRequest_Serialize, PeerMinBlockRequest_ByteSizeLong,
        PeerMinBlockRequest_MergeFrom, PeerMinBlockRequest_InternalSwap)

InboundMessage_accessors ==
    [id |-> "enum", data |-> "bytes", peer_id |-> "bytes"]
InboundMessage_copied == {"data", "peer_id", "id"}
InboundMessage_Clear == {"data", "peer_id", "id"}
InboundMessage_Parse ==
    [id |-> {8}, data |-> {18}, peer_id |-> {26}]
InboundMessage_Serialize == <<<<1, "id">>, <<2, "data">>, <<3, "peer_id">>>>
InboundMessage_ByteSizeLong == <<"data", "peer_id", "id">>
InboundMessage_MergeFrom == {"data", "peer_id", "id"}
InboundMessage_InternalSwap == {"data", "peer_id", "id"}
InboundMessage ==
    MessageClass(InboundMessage_accessors, InboundMessage_copied, InboundMessage_Clear,
        InboundMessage_Parse, InboundMessage_Serialize, InboundMessage_ByteSizeLong,
        InboundMessage_MergeFrom, InboundMessage_InternalSwap)

Forks_accessors ==
    [genesis |-> "bytes", forks |-> "repeated_uint64"]
Forks_copied == {"genesis", "forks"}
Forks_Clear == {"forks", "genesis"}
\* Mutant: forks are taken only if they come packed.
Forks_Parse_PackedOnly == [genesis |-> {10}, forks |-> {18}]
Forks_Parse ==
    [genesis |-> {10}, forks |-> {18, 16}]
Forks_Serialize == <<<<1, "genesis">>, <<2, "forks">>>>
Forks_ByteSizeLong == <<"forks", "genesis">>
Forks_MergeFrom == {"genesis", "forks"}
Forks_InternalSwap == {"forks", "genesis"}
Forks ==
    MessageClass(Forks_accessors, Forks_copied, Forks_Clear,
        Forks_Parse, Forks_Serialize, Forks_ByteSizeLong,
        Forks_MergeFrom, Forks_InternalSwap)

StatusData_members == <<"total_difficulty", "best_hash", "fork_data", "network_id">>
StatusData_accessors ==
    [network_id |-> "uint64", total_difficulty |-> "bytes", best_hash |-> "bytes", fork_data |-> "Forks"]
StatusData_copied == {"total_difficulty", "best_hash", "fork_data", "network_id"}
StatusData_Clear == {"total_difficulty", "best_hash", "fork_data", "network_id"}
StatusData_Parse ==
    [network_id |-> {8}, total_difficulty |-> {18}, best_hash |-> {26}, fork_data |-> {34}]
StatusData_Serialize == <<<<1, "network_id">>, <<2, "total_difficulty">>, <<3, "best_hash">>, <<4, "fork_data">>>>
StatusData_ByteSizeLong == <<"total_difficulty", "best_hash", "fork_data", "network_id">>
\* Mutant: the submessage is left out.
StatusData_MergeFrom_NoForks == {"total_difficulty", "best_hash", "network_id"}
StatusData_MergeFrom == {"total_difficulty", "best_hash", "network_id", "fork_data"}
\* Mutant: the block ends after the pointer.
StatusData_InternalSwap_Pointer ==
    {"total_difficulty", "best_hash"} \cup Span(StatusData_members, "fork_data", "fork_data")
StatusData_InternalSwap == {"total_difficulty", "best_hash"} \cup Span(StatusData_members, "fork_data", "network_id")
StatusData ==
    MessageClass(StatusData_accessors, StatusData_copied, StatusData_Clear,
        StatusData_Parse, StatusData_Serialize, StatusData_ByteSizeLong,
        StatusData_MergeFrom, StatusData_InternalSwap)
==============================================================================
