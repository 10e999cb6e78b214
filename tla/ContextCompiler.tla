---------------------------- MODULE ContextCompiler ----------------------------
(***************************************************************************)
(* The prompt a deployment is sent (context/): the messages of a request as  *)
(* typed blocks, without repetitions, ordered for prefix caches and cut to   *)
(* the context window.                                                      *)
(*                                                                         *)
(* A text is [words, tokens]: what is left of it after normalise(), and its  *)
(* count.  Pure: the compiler keeps no state.                               *)
(***************************************************************************)
EXTENDS Integers, SequencesExt

LOCAL None == <<>>

TrustLevels == <<"system", "developer", "tenant", "user", "tool", "retrieved", "untrusted">>
Priorities == <<"required", "high", "normal", "low", "optional">>
Cacheabilities == <<"stable", "semi_stable", "volatile", "never">>

LOCAL Ordinal(order, x) == CHOOSE i \in DOMAIN order : order[i] = x

IsAuthoritative(trust) == Ordinal(TrustLevels, trust) <= Ordinal(TrustLevels, "tenant")

IsDroppable(block) == block.priority # "required"

-----------------------------------------------------------------------------
\* Admission

\* A message is [role, text]; what kind of block it is.
ClassifyMessage(role, latest) ==
  CASE role = "system" ->
         [type |-> "system", trust |-> "system", priority |-> "required", cacheability |-> "stable"]
    [] role = "tool" ->
         [type |-> "tool_result", trust |-> "tool", priority |-> "normal", cacheability |-> "volatile"]
    [] role = "user" /\ latest ->
         [type |-> "user", trust |-> "user", priority |-> "required", cacheability |-> "volatile"]
    [] OTHER ->
         [type |-> "conversation", trust |-> "user", priority |-> "high", cacheability |-> "volatile"]

LatestUser(messages) ==
  LET users == {i \in DOMAIN messages : messages[i].role = "user"}
  IN  IF users = {} THEN 0 ELSE CHOOSE i \in users : \A j \in users : j <= i

Block(tenant, messages, i) ==
  [id |-> i, text |-> messages[i].text, source |-> messages[i].role, tenant |-> tenant]
    @@ ClassifyMessage(messages[i].role, i = LatestUser(messages))

\* Blocks of another tenant are refused.
Admit(tenant, messages, extra) ==
  [i \in DOMAIN messages |-> Block(tenant, messages, i)] \o extra

Foreign(tenant, extra) == \E i \in DOMAIN extra : extra[i].tenant # tenant

Tokens(blocks) == FoldSeq(LAMBDA b, sum : sum + b.text.tokens, 0, blocks)

-----------------------------------------------------------------------------
\* Optimisation

\* The first of the blocks that say the same stays.
Deduplicated(blocks) ==
  LET first == {i \in DOMAIN blocks :
                  \A j \in 1..i - 1 : blocks[j].text.words # blocks[i].text.words}
      indices == SetToSortSeq(first, <)
  IN  [k \in DOMAIN indices |-> blocks[indices[k]]]

\* The blocks, stably sorted by two keys.
LOCAL SortedBy(blocks, Major(_), Minor(_)) ==
  LET Before(i, j) ==
        \/ Major(blocks[i]) < Major(blocks[j])
        \/ /\ Major(blocks[i]) = Major(blocks[j])
           /\ \/ Minor(blocks[i]) < Minor(blocks[j])
              \/ Minor(blocks[i]) = Minor(blocks[j]) /\ i < j
      order == SetToSortSeq(DOMAIN blocks, Before)
  IN  [k \in DOMAIN order |-> blocks[order[k]]]

Ordered(blocks) ==
  LET Cacheable(b) == Ordinal(Cacheabilities, b.cacheability)
      Trusted(b) == Ordinal(TrustLevels, b.trust)
  IN  SortedBy(blocks, Cacheable, Trusted)

\* Mistake: the required blocks are not charged to the budget.
Truncated_RequiredIsFree(blocks, available) ==
  LET Rank(b) == Ordinal(Priorities, b.priority)
      Biggest(b) == -b.text.tokens
      Keep(kept, b) == IF Tokens(kept) + b.text.tokens <= available THEN Append(kept, b) ELSE kept
      kept == FoldLeft(Keep, <<>>, SortedBy(SelectSeq(blocks, IsDroppable), Rank, Biggest))
  IN  SelectSeq(blocks, LAMBDA b : ~IsDroppable(b) \/ b \in ToSet(kept))

\* truncate_to_budget: required blocks first, then what fits, the more important and
\* then the bigger first.
Truncated(blocks, available) ==
  LET Rank(b) == Ordinal(Priorities, b.priority)
      Biggest(b) == -b.text.tokens
      Keep(kept, b) == IF Tokens(kept) + b.text.tokens <= available THEN Append(kept, b) ELSE kept
      required == SelectSeq(blocks, LAMBDA b : ~IsDroppable(b))
      kept == FoldLeft(Keep, required, SortedBy(SelectSeq(blocks, IsDroppable), Rank, Biggest))
  IN  SelectSeq(blocks, LAMBDA b : b \in ToSet(kept))

\* The leading blocks a prefix cache may keep.
StablePrefix(blocks) ==
  LET Kept(i) == blocks[i].cacheability \in {"stable", "semi_stable"}
      cuts == {n \in 0..Len(blocks) : \A i \in 1..n : Kept(i)}
  IN  SubSeq(blocks, 1, CHOOSE n \in cuts : \A m \in cuts : m <= n)

-----------------------------------------------------------------------------
\* The budget

DEFAULT_RESERVED_OUTPUT == 256
SAFETY_FLOOR == 32
FRAMING == 4      \* tokens of framing per block

LOCAL AtLeast0(n) == IF n > 0 THEN n ELSE 0

\* plan_budget, with a counter that estimates: two per cent, rounded up, are kept back.
AvailableTokens(window, reserved, count) ==
  LET two_percent == (window + 49) \div 50
      margin == IF two_percent > SAFETY_FLOOR THEN two_percent ELSE SAFETY_FLOOR
  IN  AtLeast0(window - reserved - margin - FRAMING * count)

Reserved(max_tokens) == IF max_tokens \in {None, <<0>>} THEN DEFAULT_RESERVED_OUTPUT ELSE max_tokens[1]

-----------------------------------------------------------------------------
\* compile()

\* The role a block is sent under.
RoleFor(block) ==
  IF block.source \in {"system", "user", "assistant", "tool"} THEN block.source
  ELSE IF block.type = "tool_result" THEN "tool"
  ELSE IF block.type # "user" /\ IsAuthoritative(block.trust) THEN "system"
  ELSE "user"

ByType(blocks, type) == Tokens(SelectSeq(blocks, LAMBDA b : b.type = type))

\* bind_model_window: in ten-thousandths of a per cent.
Utilization(after, window) ==
  IF window = None \/ window[1] <= 0 THEN None ELSE <<(1000000 * after) \div window[1]>>

Refusal(why) == [outcome |-> why]

CompiledFrom(admitted, deduplicated, kept, window, reserved) ==
  [outcome |-> "compiled", blocks |-> kept,
   messages |-> [i \in DOMAIN kept |-> [role |-> RoleFor(kept[i]), text |-> kept[i].text]],
   before |-> Tokens(admitted), after |-> Tokens(kept),
   deduplicated |-> Tokens(admitted) - Tokens(deduplicated),
   dropped |-> Tokens(deduplicated) - Tokens(kept),
   by_type |-> [t \in {b.type : b \in ToSet(kept)} |-> ByType(kept, t)],
   stable |-> Tokens(StablePrefix(kept)), volatile |-> Tokens(kept) - Tokens(StablePrefix(kept)),
   reserved |-> reserved, limit |-> window, utilization |-> Utilization(Tokens(kept), window)]

Compile(tenant, messages, extra, window, max_tokens) ==
  LET admitted == Admit(tenant, messages, extra)
      deduplicated == Ordered(Deduplicated(admitted))
      reserved == Reserved(max_tokens)
      available == AvailableTokens(window[1], reserved, Len(deduplicated))
      required == SelectSeq(deduplicated, LAMBDA b : ~IsDroppable(b))
  IN  IF Foreign(tenant, extra) THEN Refusal("foreign")
      ELSE IF window = None THEN CompiledFrom(admitted, deduplicated, deduplicated, window, reserved)
      ELSE IF Tokens(required) > available THEN Refusal("too_large")
      ELSE CompiledFrom(admitted, deduplicated, Ordered(Truncated(deduplicated, available)), window, reserved)

-----------------------------------------------------------------------------
\* Properties

Accounted(c, admitted, tenant, messages, extra, window) ==
  LET Sum(f) == FoldFunction(+, 0, f) IN
  c.outcome = "compiled" =>
    /\ window # None /\ c.after > 0 =>
         c.after + c.reserved + FRAMING * Len(c.blocks) + SAFETY_FLOOR <= window[1]
    /\ \A b \in admitted :
         /\ b.tenant = tenant
         /\ ~IsDroppable(b) /\ b \notin ToSet(c.blocks) =>
              \E d \in admitted \ {b} : d.text.words = b.text.words
    /\ \A i, j \in DOMAIN messages :
         i < j /\ i \in DOMAIN c.messages /\ j \in DOMAIN c.messages =>
           (c.messages[j].role = "system" => c.messages[i].role = "system" \/ extra # <<>>)
    /\ c.before = c.after + c.deduplicated + c.dropped
    /\ c.after = Sum(c.by_type) /\ c.after = c.stable + c.volatile

\* What is compiled fits the window together with the output it is to leave room for;
\* a required block goes only where another block said the same; nobody's system text
\* follows a user's; and the record accounts for every token: kept, repeated or dropped,
\* of one type, in the prefix or behind it.
FitsAndAccounts(tenant, messages, extra, window, max_tokens) ==
  Accounted(Compile(tenant, messages, extra, window, max_tokens),
            ToSet(Admit(tenant, messages, extra)), tenant, messages, extra, window)

=============================================================================
