---------------------------- MODULE MCServerSession ----------------------------
(* Instances of ServerSession.  The session is one of MRCPv2 whose offers can *)
(* be met, one of MRCPv2 whose offers name resources without an engine or     *)
(* unknown ones, with engines that may refuse a channel, or one of MRCPv1.    *)
EXTENDS ServerSession

VARIABLE profile

Medium(resource, port) == [resource |-> resource, port |-> port]
Descriptor(control, audio) == [control |-> control, audio |-> audio]

Synth == Medium("synth", TRUE)
Recog == Medium("recog", TRUE)

\* one medium, two, and one of the two disabled
TwoChannels ==
    {Descriptor(<<Synth>>, 1), Descriptor(<<Synth, Recog>>, 1),
     Descriptor(<<Medium("synth", FALSE), Recog>>, 0)}

\* resources that the profile has no engine for, or does not know
Mixed ==
    {Descriptor(<<Medium("recorder", TRUE), Synth>>, 1),
     Descriptor(<<Medium("fax", TRUE), Synth>>, 0)}

\* one resource to an offer
OneResource ==
    {Descriptor(<<Synth>>, 1), Descriptor(<<Recog>>, 1), Descriptor(<<Medium("recog", FALSE)>>, 0),
     Descriptor(<<Medium("fax", TRUE)>>, 1)}

AllOffers == TwoChannels \cup Mixed \cup OneResource

Met == INSTANCE ServerSession WITH Version <- 2, Offer <- TwoChannels, MaxOffers <- 2
Refused == INSTANCE ServerSession
    WITH Version <- 2, Offer <- Mixed, Limited <- TRUE, MaxOffers <- 2
Setup == INSTANCE ServerSession WITH Version <- 1, Offer <- OneResource

MCInit == profile \in {"met", "refused", "setup"} /\ Init

MCNext ==
    \/ profile = "met" /\ Met!Next /\ UNCHANGED profile
    \/ profile = "refused" /\ Refused!Next /\ UNCHANGED profile
    \/ profile = "setup" /\ Setup!Next /\ UNCHANGED profile

\* every thread keeps running; the client may fall silent
MCSpec ==
    /\ MCInit /\ [][MCNext]_<<vars, profile>>
    /\ WF_vars(profile = "met" /\ Met!ServerTask)
    /\ WF_vars(profile = "met" /\ Met!AgentStep)
    /\ WF_vars(profile = "met" /\ Met!EngineStep)
    /\ WF_vars(profile = "met" /\ Met!MediaStep)

\* types, CountMatches of mrcp_server_session_subrequest_remove and NothingLeftBehind of
\* mrcp_server_session_terminate_process, for every profile
CountedExactly == TypeOK /\ CountMatches /\ NothingLeftBehind

\* ActiveInProgress of mrcp_server_session_t and AnswerComplete of
\* mrcp_server_session_answer_send, when every medium of the offer can be met: a request
\* for a channel without an engine channel, and one of MRCPv1 for a resource that was not
\* set up, is dropped and remains the active request
AnswersWhenMet == profile = "met" => ActiveInProgress /\ AnswerComplete

\* EveryOfferAnswered by mrcp_server_session_answer_send and SessionDestroyed by
\* mrcp_server_session_terminate_process, when every medium of the offer can be met
ServedWhenMet ==
    /\ profile = "met" => EveryOfferAnswered
    /\ profile = "met" => SessionDestroyed
=============================================================================
