------------------------------ MODULE AgentTurn ------------------------------
(***************************************************************************)
(* One run of the language model for one message: the tools it calls, what *)
(* they read, the answer taken from it and the cards shown beside it.      *)
(* apps/chatbot/agent/factory.py, tools.py, worker_tools.py, errors.py,    *)
(* services/queries.py, knowledge.py and response.py.                      *)
(*                                                                         *)
(* The model decides which tools it calls, what it says and which cards it *)
(* asks for; all of that is arbitrary.  Services may be switched off, help *)
(* articles withdrawn and bookings removed while it runs.                  *)
(***************************************************************************)
EXTENDS Integers, Sequences, SequencesExt, FiniteSets

CONSTANTS
    ActiveServices,     \* ids of the services on offer at the start
    OwnBookings,        \* ids of the bookings of who asks; a booking has one session
    OtherBookings,      \* and of somebody else
    GuideSections,      \* <<article, index>> of the sections published for customers
    ToolLimit,          \* CHATBOT_MAX_TOOL_CALLS
    ModelLimit,         \* CHATBOT_MAX_MODEL_CALLS
    CardLimit           \* cards an answer may have, 5 in the code

ASSUME AgentTurnAssumption ==
    /\ ActiveServices \subseteq Nat \ {0} /\ IsFiniteSet(ActiveServices)
    /\ OwnBookings \cap OtherBookings = {} /\ IsFiniteSet(GuideSections)
    /\ ToolLimit \in Nat /\ ModelLimit \in Nat /\ CardLimit \in Nat \ {0}

VARIABLES
    asker,      \* CUSTOMER or WORKER
    there,      \* cards of things that are still active, published or in the table
    step,       \* asked, model, retried, tools, answered, shown or failed
    calls,      \* calls of the model, and of tools
    late,       \* the deadline of the run has passed
    read,       \* what the results of the tools add up to
    named,      \* cards of the services and bookings the text of the answer names
    references, \* cards the answer proposes
    shown,      \* cards of the message
    failure     \* failure_code, or "NONE"

agentVars == <<asker, there, step, calls, late, read, named, references, shown, failure>>

Card(type, id) == [type |-> type, id |-> id, section |-> 0]
HelpCard(section) == [type |-> "help", id |-> section[1], section |-> section[2]]
MapCard == Card("address_map", 0)
Plain(card) == Card(card.type, card.id)

CardsOf(type, ids) == {Card(type, i) : i \in ids}
HelpArticles == {s[1] : s \in GuideSections}
OwnCards == CardsOf("booking", OwnBookings) \cup CardsOf("schedule", OwnBookings)
OtherCards == CardsOf("booking", OtherBookings) \cup CardsOf("schedule", OtherBookings)
EveryCard == CardsOf("service", ActiveServices) \cup OwnCards \cup OtherCards \cup CardsOf("help", HelpArticles)

\* The queries of the assistant start from the bookings of who asks.
Mine(card) == card \in OwnCards /\ card \in there

ById(ids) == SetToSortSeq(ids, <)
Distinct(seq) == SelectSeq([i \in DOMAIN seq |-> [at |-> i, card |-> seq[i]]],
                           LAMBDA e : \A j \in 1..(e.at - 1) : Plain(seq[j]) # Plain(e.card))
Sole(seq) == [i \in DOMAIN Distinct(seq) |-> Distinct(seq)[i].card]
FirstOf(n, seq) == SubSeq(seq, 1, IF Len(seq) < n THEN Len(seq) ELSE n)

NoCard == Card("none", 0)
NoSelection == <<NoCard>>
NothingRead == [candidates |-> {}, sources |-> <<>>, map |-> FALSE, detail |-> <<>>,
                found |-> <<>>, listed |-> {}, selected |-> NoSelection]

-----------------------------------------------------------------------------
(* Search of the help.                                                     *)

\* Sections are ranked by the sum of 1 / (60 + rank) over the lists that hold them: here
\* as a fraction, for whole numbers to be compared.
RankIn(list, s) == CHOOSE i \in DOMAIN list : list[i] = s
Fraction(keyword, vector, s) ==
    LET k == 59 + RankIn(keyword, s)
        v == 59 + RankIn(vector, s)
    IN  IF s \in Range(keyword) /\ s \in Range(vector) THEN [over |-> k + v, under |-> k * v]
        ELSE [over |-> 1, under |-> IF s \in Range(keyword) THEN k ELSE v]

Sooner(s, t) == s[1] < t[1] \/ (s[1] = t[1] /\ s[2] < t[2])

Fused(keyword, vector) ==
    SetToSortSeq(Range(keyword) \cup Range(vector),
        LAMBDA s, t :
            LET a == Fraction(keyword, vector, s)
                b == Fraction(keyword, vector, t)
            IN  \/ a.over * b.under > b.over * a.under
                \/ a.over * b.under = b.over * a.under /\ Sooner(s, t))

\* One card per article, that of its best section; two at most.
HelpCards(keyword, vector) ==
    LET best == FirstOf(3, Fused(keyword, vector))
    IN  FirstOf(2, Sole([i \in DOMAIN best |-> HelpCard(best[i])]))

\* Articles for customers have chunks; those for workers are found by their words alone.
Rankings == {seq \in SeqOf(GuideSections, 2) : IsInjective(seq)}
Found(list) == \A i \in DOMAIN list : Card("help", list[i][1]) \in there

-----------------------------------------------------------------------------
(* What the tools look up.                                                 *)

OnOffer(id) == Card("service", id) \in there
MyBookings == {c \in OwnCards \cap there : c.type = "booking"}
BookingSessions(id) == IF Mine(Card("booking", id)) THEN Card("schedule", id) ELSE NoCard
BookingDetail(id) == IF Mine(Card("booking", id)) THEN Card("booking", id) ELSE NoCard

\* A page of the active services that match, by id.
CatalogPage(ids) == [k \in DOMAIN ById(ids) |-> Card("service", ById(ids)[k])]

-----------------------------------------------------------------------------
(* The run.                                                                *)

Fails(code) ==
    /\ step' = "failed" /\ failure' = code
    /\ UNCHANGED <<asker, there, calls, late, read, named, references, shown>>

\* A broad question is answered with the catalogue, without the model.
AnswerFromCatalogue ==
    /\ step = "asked" /\ asker = "CUSTOMER" /\ calls.model = 0
    /\ step' = "answered"
    /\ references' = CatalogPage({i \in ActiveServices : OnOffer(i)})
    /\ named' = CardsOf("service", {i \in ActiveServices : OnOffer(i)})
    /\ UNCHANGED <<asker, there, calls, late, read, shown, failure>>

\* The deadline and the number of calls are looked at before every call of the model.
CallModel ==
    /\ step = "asked"
    /\ IF late THEN Fails("CHATBOT_MODEL_TIMEOUT")
       ELSE IF calls.model = ModelLimit THEN Fails("CHATBOT_REPLY_FAILED")
       ELSE /\ step' = "model" /\ calls' = [calls EXCEPT !.model = @ + 1]
            /\ UNCHANGED <<asker, there, late, read, named, references, shown, failure>>

Retryable == {"CHATBOT_PROVIDER_BUSY", "CHATBOT_MODEL_TIMEOUT"}
ProviderErrors == Retryable \cup {"CHATBOT_RATE_LIMITED", "CHATBOT_PROVIDER_CONFIG_ERROR",
                                  "CHATBOT_REPLY_FAILED"}

\* A busy provider is asked once more; every other error ends the run.
ModelFails(code) ==
    /\ step \in {"model", "retried"}
    /\ IF code \in Retryable /\ step = "model"
       THEN /\ step' = "retried"
            /\ UNCHANGED <<asker, there, calls, late, read, named, references, shown, failure>>
       ELSE Fails(code)

RetryTooLate == step = "retried" /\ late /\ Fails("CHATBOT_MODEL_TIMEOUT")

ModelWantsTools ==
    /\ step \in {"model", "retried"} /\ step' = "tools"
    /\ UNCHANGED <<asker, there, calls, late, read, named, references, shown, failure>>

ToolsDone ==
    /\ step = "tools" /\ step' = "asked"
    /\ UNCHANGED <<asker, there, calls, late, read, named, references, shown, failure>>

TooManyTools == step = "tools" /\ calls.tools = ToolLimit /\ Fails("CHATBOT_REPLY_FAILED")

\* A tool that reads looks at the deadline first, and an error it does not know ends the run.
ToolFails ==
    /\ step = "tools"
    /\ \/ late /\ Fails("CHATBOT_MODEL_TIMEOUT")
       \/ ~late /\ Fails("CHATBOT_REPLY_FAILED")

Returns(result) ==
    /\ step = "tools" /\ calls.tools < ToolLimit
    /\ calls' = [calls EXCEPT !.tools = @ + 1]
    /\ read' = result
    /\ UNCHANGED <<asker, there, step, late, named, references, shown, failure>>

OnTime == ~late
ForCustomers == asker = "CUSTOMER"
With(cards) == [read EXCEPT !.candidates = {c \in @ : Plain(c) \notin {Plain(d) : d \in cards}} \cup cards]

SearchServices(ids) ==
    /\ ForCustomers /\ OnTime /\ \A id \in ids : OnOffer(id)
    /\ Returns([With(Range(CatalogPage(ids))) EXCEPT !.found = Sole(@ \o CatalogPage(ids))])

\* What is looked at in detail; a service switched off or a booking of another is not found.
LookAt(card) ==
    /\ ForCustomers /\ OnTime
    /\ Returns([With({card} \ {NoCard}) EXCEPT !.detail = IF card = NoCard THEN <<>> ELSE <<card>>])

GetServiceDetails(id) == LookAt(IF OnOffer(id) THEN Card("service", id) ELSE NoCard)
GetMyBookingDetail(id) == LookAt(BookingDetail(id))
GetMyBookingSchedules(id) == LookAt(BookingSessions(id))

ListMyBookings(ids) ==
    /\ ForCustomers /\ OnTime /\ CardsOf("booking", ids) \subseteq MyBookings
    /\ Returns([With(CardsOf("booking", ids)) EXCEPT !.listed = @ \cup ids])

\* Payment links, reorders and what is confirmed bring the card of what they are about.
CardTool(card) ==
    /\ ForCustomers /\ OnTime
    /\ card.type = "booking" => Mine(card)
    /\ card.type = "service" => card \in there
    /\ Returns(With({card}))

SearchHelp(keyword, vector) ==
    /\ OnTime /\ Found(keyword) /\ Found(vector)
    /\ asker = "WORKER" => vector = <<>>
    /\ LET cards == HelpCards(keyword, vector)
       IN  Returns([With(Range(cards)) EXCEPT
                      !.sources = @ \o SelectSeq(cards, LAMBDA c : c \notin Range(read.sources))])

\* Cards the model asks for, of what tools have read before.
SelectResponseCards(cards) ==
    /\ ForCustomers
    /\ LET known == SelectSeq(cards, LAMBDA c : Plain(c) \in {Plain(d) : d \in read.candidates})
       IN  Returns([read EXCEPT !.selected = Sole(known)])

OpenAddressMapPicker == ForCustomers /\ Returns([read EXCEPT !.map = TRUE])

\* Addresses, the wallet, vouchers, favourites, wards and what only prepares.
PlainTool == ForCustomers /\ OnTime /\ Returns(read)

\* What workers ask brings no cards.
WorkerTool == ~ForCustomers /\ OnTime /\ Returns(read)

-----------------------------------------------------------------------------
(* The answer.                                                             *)

\* Services a search found that the text names, in the order they were found.
NamedServices(text) == SelectSeq(read.found, LAMBDA c : c \in text)
NamedBookings(text) ==
    LET ids == {i \in read.listed : Card("booking", i) \in text}
    IN  [k \in DOMAIN ById(ids) |-> Card("booking", ById(ids)[k])]

\* Cards kept from those the model asked for.
Chosen(text) ==
    LET kept == SelectSeq(read.selected, LAMBDA c : c.type # "service" \/ c \in Range(NamedServices(text)))
    IN  kept \o SelectSeq(NamedServices(text), LAMBDA c : c \notin Range(kept))

\* Cards when it did not ask: of the bookings named, or the services named, or what was
\* last looked at, or the only thing read.
Implied(text) ==
    IF NamedBookings(text) # <<>> THEN NamedBookings(text)
    ELSE IF NamedServices(text) # <<>> THEN NamedServices(text)
    ELSE IF read.detail # <<>> THEN read.detail
    ELSE IF Cardinality(read.candidates) = 1 THEN SetToSeq(read.candidates) ELSE <<>>

\* Plausible bug: a service card the model asked for is kept although the text names another.
ExtractAnswer_Trusting(text) ==
    LET cards == IF read.selected = NoSelection THEN Implied(text) ELSE read.selected
    IN  FirstOf(CardLimit, read.sources \o (IF read.map THEN <<MapCard>> ELSE <<>>)
                           \o SelectSeq(cards, LAMBDA c : c.type # "help"))

\* What the help was quoted from comes first, then the button of the map.
ExtractAnswer(text) ==
    LET cards == IF read.selected = NoSelection THEN Implied(text) ELSE Chosen(text)
    IN  FirstOf(CardLimit, read.sources \o (IF read.map THEN <<MapCard>> ELSE <<>>)
                           \o SelectSeq(cards, LAMBDA c : c.type # "help"))

ModelAnswers(text) ==
    /\ step \in {"model", "retried"}
    /\ step' = "answered" /\ named' = text /\ references' = ExtractAnswer(text)
    /\ UNCHANGED <<asker, there, calls, late, read, shown, failure>>

\* An answer that is empty or too long is no answer.
AnswerInvalid == step \in {"model", "retried"} /\ Fails("CHATBOT_REPLY_FAILED")

\* Cards are looked up again for who asks; workers are shown sources alone.
Showable(card) ==
    /\ asker = "WORKER" => card.type = "help"
    /\ \/ card = MapCard
       \/ card.type \in {"service", "help"} /\ Plain(card) \in there
       \/ card.type \in {"booking", "schedule"} /\ Mine(card)

BuildCards ==
    /\ step = "answered" /\ step' = "shown"
    /\ shown' = FirstOf(CardLimit, SelectSeq(Sole(references), Showable))
    /\ UNCHANGED <<asker, there, calls, late, read, named, references, failure>>

\* Administrators change the catalogue and the help meanwhile: one thing per run.
Withdraw(card) ==
    /\ step \in {"asked", "answered"} /\ there = EveryCard
    /\ there' = there \ {card}
    /\ UNCHANGED <<asker, step, calls, late, read, named, references, shown, failure>>

DeadlinePasses ==
    /\ step \in {"model", "retried", "tools"} /\ ~late /\ late' = TRUE
    /\ UNCHANGED <<asker, there, step, calls, read, named, references, shown, failure>>

-----------------------------------------------------------------------------
AgentTurnInit ==
    /\ asker \in {"CUSTOMER", "WORKER"} /\ there = EveryCard /\ step = "asked"
    /\ calls = [model |-> 0, tools |-> 0] /\ late = FALSE /\ read = NothingRead
    /\ named = {} /\ references = <<>> /\ shown = <<>> /\ failure = "NONE"

Texts == SUBSET (CardsOf("service", ActiveServices) \cup CardsOf("booking", OwnBookings))

AgentTurnNext ==
    \/ AnswerFromCatalogue \/ CallModel \/ RetryTooLate \/ ModelWantsTools \/ ToolsDone
    \/ TooManyTools \/ ToolFails \/ AnswerInvalid \/ BuildCards \/ DeadlinePasses
    \/ OpenAddressMapPicker \/ PlainTool \/ WorkerTool
    \/ \E code \in ProviderErrors : ModelFails(code)
    \/ \E ids \in SUBSET ActiveServices : SearchServices(ids)
    \/ \E id \in ActiveServices : GetServiceDetails(id) \/ CardTool(Card("service", id))
    \/ \E id \in OwnBookings \cup OtherBookings :
          GetMyBookingDetail(id) \/ GetMyBookingSchedules(id) \/ CardTool(Card("booking", id))
    \/ \E ids \in SUBSET OwnBookings : ListMyBookings(ids)
    \/ \E keyword, vector \in Rankings : SearchHelp(keyword, vector)
    \/ \E cards \in SeqOf(EveryCard, CardLimit) : SelectResponseCards(cards)
    \/ \E text \in Texts : ModelAnswers(text)
    \/ \E card \in EveryCard : Withdraw(card)

-----------------------------------------------------------------------------
AgentTurnTypeOK ==
    /\ asker \in {"CUSTOMER", "WORKER"} /\ there \subseteq EveryCard
    /\ step \in {"asked", "model", "retried", "tools", "answered", "shown", "failed"}
    /\ calls.model \in 0..ModelLimit /\ calls.tools \in 0..ToolLimit
    /\ failure \in ProviderErrors \cup {"NONE"} /\ (failure # "NONE" <=> step = "failed")
    /\ Len(references) <= CardLimit \/ calls.model = 0

Keys(seq) == {Plain(c) : c \in Range(seq)}
FromModel == step \in {"answered", "shown"} /\ calls.model > 0

\* "The model can only select entities actually read in this turn" (extract_answer): a
\* card leads only to what a tool has returned for this question, whatever was asked for.
CardsWereRead ==
    FromModel => Keys(references) \ {MapCard} \subseteq {Plain(c) : c \in read.candidates}

\* "Always preserve retrieved source provenance" (extract_answer): however many cards the
\* model asks for and however often it searches, what the help was quoted from is shown,
\* and shown first.
SourcesComeFirst ==
    FromModel => FirstOf(CardLimit, read.sources) = FirstOf(Len(FirstOf(CardLimit, read.sources)), references)

\* "A service card must be named in the natural-language answer" (extract_answer): when the
\* model asks for cards, those of services are the ones that the text names and a search
\* found, all of them unless the answer is full.
ServiceCardsAreNamed ==
    FromModel /\ read.selected # NoSelection =>
        LET offered == {c \in Range(references) : c.type = "service"}
        IN  /\ offered \subseteq named
            /\ Len(references) < CardLimit => offered = named \cap Range(read.found)

\* What is shown is there and is of who asks, also when it was withdrawn after it was read.
ShownIsLive ==
    step = "shown" => \A c \in Range(shown) : c = MapCard \/ (Plain(c) \in there /\ c \notin OtherCards)

\* What the search by words and the search by meaning both found comes before what only one
\* of them did, and neither loses anything: the ranks are added up, not concatenated.
FusionFindsBoth ==
    \A keyword, vector \in Rankings :
        LET fused == Fused(keyword, vector)
            both == Range(keyword) \cap Range(vector)
        IN  /\ Range(fused) = Range(keyword) \cup Range(vector)
            /\ \A i, j \in DOMAIN fused : fused[i] \notin both /\ fused[j] \in both => j < i

\* The cards beside an answer are of what was read for it, shown only to whom it belongs.
AgentTurnSafe ==
    /\ AgentTurnTypeOK
    /\ CardsWereRead
    /\ SourcesComeFirst
    /\ ServiceCardsAreNamed
    /\ ShownIsLive
    /\ FusionFindsBoth
=============================================================================
