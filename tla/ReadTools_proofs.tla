-------------------------- MODULE ReadTools_proofs --------------------------
(***************************************************************************)
(* Theorems about ReadTools, for any listing, any limits, any account and  *)
(* any number of agents.                                                   *)
(*                                                                         *)
(* A call shares nothing with another, so the invariant is one predicate   *)
(* of a call, Good, and a step of a call leaves the others good.  Its two  *)
(* parts follow a walk through the pages of a listing and a portfolio      *)
(* through its sections.                                                   *)
(***************************************************************************)
EXTENDS ReadTools, FiniteSetTheorems, TLAPS

(* A read is at the exchange only for a call that waits for it, and reads  *)
(* are counted up to the number the tool makes.                            *)
Counted(c) ==
    /\ wire[c].state # "none" => At(c, "wait")
    /\ calls[c].asked <= Reads(Tool(c))
    /\ At(c, "check") => calls[c].asked = 0
    /\ At(c, "send") => calls[c].asked < Reads(Tool(c))
    /\ At(c, "wait") => calls[c].asked >= 1

(* A list of fills is the newest of the account, at one moment of it.      *)
Newest(n) == {e \in 1..n : e > n - FillPage}

(* Sections are read one after the other; what they show has happened, and *)
(* the fills are those of a moment after it.                               *)
ShownBy(c, n) ==
    \A s \in Sections : \A e \in calls[c].sections[s] : e <= n

Assembled(c) ==
    Tool(c) = "portfolio" =>
        /\ ShownBy(c, executions)
        /\ At(c, "wait") /\ wire[c].state = "answered" =>
             /\ \A e \in wire[c].shown : e <= executions
             /\ Section(c) = Fills =>
                  \E n \in 0..executions : wire[c].shown = Newest(n) /\ ShownBy(c, n)
        /\ At(c, "told") =>
             \E n \in 0..executions : calls[c].sections[Fills] = Newest(n) /\ ShownBy(c, n)

(* How far the agent has come, and whether it is given the way on.         *)
Reached(c) == IF At(c, "told") THEN calls[c].page.cursor ELSE calls[c].cursor
Ended(c) == At(c, "told") /\ calls[c].page.cursor = 0

(* Up to there it has read what stayed listed, and nothing beyond.         *)
Covered(c) ==
    /\ walks[c].throughout \subseteq listed
    /\ ~walks[c].twice
    /\ Ended(c) => walks[c].throughout \subseteq walks[c].seen
    /\ ~Ended(c) => /\ \A m \in walks[c].seen : m <= Reached(c)
                    /\ \A m \in walks[c].throughout : m <= Reached(c) => m \in walks[c].seen

(* A page on its way holds what stayed listed between its two cursors.     *)
PageFits(c) ==
    wire[c].state = "answered" =>
        LET page == wire[c].page IN
        /\ \A m \in page.items : calls[c].cursor < m
        /\ page.cursor = 0 =>
             \A m \in walks[c].throughout : calls[c].cursor < m => m \in page.items
        /\ page.cursor # 0 =>
             /\ calls[c].cursor < page.cursor
             /\ \A m \in page.items : m <= page.cursor
             /\ \A m \in walks[c].throughout :
                  calls[c].cursor < m /\ m <= page.cursor => m \in page.items

Walked(c) == Follows(c) => Covered(c) /\ PageFits(c)

Good(c) == Counted(c) /\ Assembled(c) /\ Walked(c)

Inv == TypeOK /\ \A c \in Calls : Good(c)

-----------------------------------------------------------------------------
(* Types.                                                                  *)

(* What the records of an idle goroutine are made of is of their type.     *)
LEMMA Blank == /\ NoCall \in CallRecords /\ NoWire \in Wires /\ NoWalk \in Walks
               /\ NoPage \in Pages
<1>1. 0 \in 0..Last
  BY ReadAssumption
<1>2. Unread \in [Sections -> SUBSET Executions]
  BY DEF Unread
<1>3. NoPage \in Pages
  BY <1>1 DEF NoPage, Pages
<1> QED
  BY <1>1, <1>2, <1>3 DEF NoCall, CallRecords, Tools, Paging, NoWire, Wires, NoWalk, Walks

(* A goroutine that moves on within its call, and one that goes on reading.*)
LEMMA Moved ==
    ASSUME NEW r \in CallRecords,
           NEW label \in {"idle", "check", "send", "wait", "told", "failed"},
           NEW limit \in Limits, NEW cursor \in 0..Last
    PROVE  /\ [r EXCEPT !.pc = label] \in CallRecords
           /\ [r EXCEPT !.pc = label, !.limit = limit, !.asked = 0, !.page = NoPage,
                        !.cursor = cursor] \in CallRecords
<1>1. NoPage \in Pages /\ limit \in Limits \cup {0} /\ 0 \in 0..4
  BY Blank
<1>2. [r EXCEPT !.pc = label] \in CallRecords
  BY DEF CallRecords
<1>3. [r EXCEPT !.pc = label, !.limit = limit, !.asked = 0] \in CallRecords
  BY <1>1 DEF CallRecords
<1>4. [[r EXCEPT !.pc = label, !.limit = limit, !.asked = 0]
         EXCEPT !.page = NoPage, !.cursor = cursor] \in CallRecords
  BY <1>1, <1>3 DEF CallRecords
<1> QED  BY <1>2, <1>4

(* So Goto keeps the types and changes nothing but a place.                *)
LEMMA Went ==
    ASSUME TypeOK, NEW c \in Calls, NEW label \in {"send", "told", "failed"}, Goto(c, label)
    PROVE  /\ calls' \in [Calls -> CallRecords]
           /\ calls'[c] = [calls[c] EXCEPT !.pc = label]
           /\ \A d \in Calls : d # c => calls'[d] = calls[d]
<1>1. calls[c] \in CallRecords
  BY DEF TypeOK
<1>2. [calls[c] EXCEPT !.pc = label] \in CallRecords
  BY <1>1 DEF CallRecords
<1> QED  BY <1>2 DEF Goto, TypeOK

(* Every step keeps the types (the actions of ReadTools).                  *)
LEMMA TypeStep == ASSUME Inv, [Next]_vars PROVE TypeOK'
<1> USE ReadAssumption, Blank DEF Inv
<1>1. CASE UNCHANGED vars
  BY <1>1 DEF vars, TypeOK
<1>2. ASSUME NEW m \in Positions, List(m) PROVE TypeOK'
  BY <1>2 DEF List, TypeOK
<1>3. ASSUME NEW m \in Positions, Delist(m) PROVE TypeOK'
  <2>1. \A c \in Calls : [walks[c] EXCEPT !.throughout = @ \ {m}] \in Walks
    BY DEF TypeOK, Walks
  <2> QED  BY <1>3, <2>1 DEF Delist, TypeOK
<1>4. CASE Execute
  BY <1>4 DEF Execute, TypeOK
<1>5. ASSUME NEW c \in Calls, NEW tool \in Tools, NEW limit \in Limits, Ask(c, tool, limit)
      PROVE TypeOK'
  <2>1. [NoCall EXCEPT !.pc = "check", !.tool = tool, !.limit = limit] \in CallRecords
    BY DEF CallRecords, NoCall
  <2>2. [NoWalk EXCEPT !.throughout = listed] \in Walks
    BY DEF Walks, NoWalk, TypeOK
  <2> QED  BY <1>5, <2>1, <2>2 DEF Ask, TypeOK, Exchange
<1>6. ASSUME NEW c \in Calls, NEW limit \in Limits, AskOn(c, limit) PROVE TypeOK'
  <2>1. calls[c] \in CallRecords /\ calls[c].page.cursor \in 0..Last
    BY DEF TypeOK, CallRecords, Pages
  <2>2. PICK cursor \in 0..Last :
          calls' = [calls EXCEPT ![c] = [calls[c] EXCEPT !.pc = "check", !.limit = limit,
                      !.asked = 0, !.page = NoPage, !.cursor = cursor]]
    <3>1. CASE At(c, "told")
      BY <1>6, <2>1, <3>1 DEF AskOn
    <3>2. CASE ~At(c, "told")
      <4>1. calls[c].cursor \in 0..Last
        BY <2>1 DEF CallRecords
      <4> QED  BY <1>6, <4>1, <3>2 DEF AskOn
    <3> QED  BY <3>1, <3>2
  <2>3. [calls[c] EXCEPT !.pc = "check", !.limit = limit,
                      !.asked = 0, !.page = NoPage, !.cursor = cursor] \in CallRecords
    BY <2>1, Moved
  <2>4. calls' \in [Calls -> CallRecords]
    BY <2>2, <2>3 DEF TypeOK
  <2> QED  BY <1>6, <2>4 DEF AskOn, TypeOK, Exchange
<1>7. ASSUME NEW c \in Calls, Leave(c) PROVE TypeOK'
  BY <1>7 DEF Leave, TypeOK, Exchange
<1>8. ASSUME NEW c \in Calls, Serve(c) PROVE TypeOK'
  <2>1. wire[c] \in Wires /\ NoPage \in Pages
    BY DEF TypeOK
  <2>2. CASE wire' = [wire EXCEPT ![c].state = "refused"]
    <3>1. wire'[c] \in Wires
      BY <2>1, <2>2 DEF TypeOK, Wires
    <3> QED  BY <1>8, <2>2, <3>1 DEF Serve, TypeOK, Exchange
  <2>3. ASSUME NEW page \in Pages, NEW shown \in SUBSET Executions, Serves(c, page, shown)
        PROVE  wire' \in [Calls -> Wires]
    BY <2>3 DEF Serves, TypeOK, Wires
  <2>4. wire' \in [Calls -> Wires]
    <3>1. {} \in SUBSET Executions
      OBVIOUS
    <3> QED  BY <1>8, <2>1, <2>2, <2>3, <3>1 DEF Serve, TypeOK, Wires
  <2> QED  BY <1>8, <2>4 DEF Serve, TypeOK, Exchange
<1>9. ASSUME NEW c \in Calls, Check(c) PROVE TypeOK'
  BY <1>9, Went DEF Check, TypeOK, Exchange
<1>10. ASSUME NEW c \in Calls, Send(c) PROVE TypeOK'
  <2>1. calls[c].asked + 1 \in 0..4
    BY <1>10 DEF Send, At, Good, Counted, Reads, TypeOK, CallRecords
  <2>2. calls'[c] \in CallRecords
    BY <1>10, <2>1 DEF Send, TypeOK, CallRecords
  <2>3. wire'[c] \in Wires
    BY <1>10 DEF Send, TypeOK, Wires, NoWire
  <2> QED  BY <1>10, <2>2, <2>3 DEF Send, TypeOK, Exchange
<1>11. ASSUME NEW c \in Calls, Answered(c) PROVE TypeOK'
  <2>1. calls[c] \in CallRecords /\ wire[c] \in Wires /\ walks[c] \in Walks
    BY DEF TypeOK
  <2>2. wire[c].page \in Pages /\ wire[c].shown \in SUBSET Executions
    BY <2>1 DEF Wires
  <2>3. CASE Tool(c) \in Paging
    <3>1. Tool(c) # "portfolio" /\ Tool(c) # "single"
      BY <2>3 DEF Paging
    <3>2. [calls[c] EXCEPT !.pc = "told", !.page = wire[c].page] \in CallRecords
      BY <2>1, <2>2 DEF CallRecords
    <3>3. walks'[c] \in Walks
      BY <1>11, <2>1, <2>2, <3>1 DEF Answered, Page, TypeOK, Walks, Pages
    <3>4. calls' \in [Calls -> CallRecords] /\ walks' \in [Calls -> Walks]
      BY <1>11, <3>1, <3>2, <3>3 DEF Answered, Page, TypeOK
    <3> QED  BY <1>11, <3>4 DEF Answered, TypeOK, Exchange
  <2>4. CASE Tool(c) = "portfolio"
    <3>1. Tool(c) \notin Paging /\ Tool(c) # "single"
      BY <2>4 DEF Paging
    <3>2. PICK label \in {"send", "told"} :
            calls' = [calls EXCEPT ![c] = [calls[c] EXCEPT !.pc = label,
                        !.sections = [calls[c].sections EXCEPT ![calls[c].asked]
                                        = wire[c].shown]]]
      BY <1>11, <2>1, <3>1 DEF Answered, Section, TypeOK
    <3>3. [calls[c].sections EXCEPT ![calls[c].asked] = wire[c].shown]
            \in [Sections -> SUBSET Executions]
      <4>1. calls[c].sections \in [Sections -> SUBSET Executions]
        BY <2>1 DEF CallRecords
      <4> QED  BY <2>2, <4>1
    <3>4. [calls[c] EXCEPT !.pc = label,
                        !.sections = [calls[c].sections EXCEPT ![calls[c].asked]
                                        = wire[c].shown]] \in CallRecords
      BY <2>1, <3>3 DEF CallRecords
    <3> QED  BY <1>11, <3>1, <3>2, <3>4 DEF Answered, TypeOK, Exchange
  <2>5. CASE Goto(c, "told") /\ UNCHANGED walks
    BY <1>11, <2>5, Went DEF Answered, TypeOK, Exchange
  <2> QED  BY <1>11, <2>3, <2>4, <2>5 DEF Answered
<1>12. ASSUME NEW c \in Calls, Refused(c) \/ Unreachable(c) PROVE TypeOK'
  BY <1>12, Went DEF Refused, Unreachable, TypeOK, Exchange
<1> QED
  BY <1>1, <1>2, <1>3, <1>4, <1>5, <1>6, <1>7, <1>8, <1>9, <1>10, <1>11, <1>12
     DEF Next, Step

-----------------------------------------------------------------------------
(* Calls.                                                                  *)

(* A call that is not touched stays good, whatever the others do.          *)
LEMMA Untouched ==
    ASSUME NEW d \in Calls, Good(d), UNCHANGED Exchange,
           calls'[d] = calls[d], wire'[d] = wire[d], walks'[d] = walks[d]
    PROVE  Good(d)'
<1>1. Counted(d)'
  BY DEF Good, Counted, At, Tool, Reads
<1>2. Assembled(d)'
  BY DEF Good, Assembled, At, Tool, Section, ShownBy, Newest, Exchange
<1>3. Covered(d) => Covered(d)'
  BY DEF Covered, Ended, Reached, At, Exchange
<1>4. PageFits(d) => PageFits(d)'
  BY DEF PageFits
<1>5. Walked(d)'
  BY <1>3, <1>4 DEF Good, Walked, Follows, Tool
<1> QED  BY <1>1, <1>2, <1>5 DEF Good

(* Listing, delisting and executing: what was read stays read.             *)
LEMMA ExchangeStep ==
    ASSUME Inv,
           \/ \E m \in Positions : List(m) \/ Delist(m)
           \/ Execute,
           NEW c \in Calls
    PROVE  Good(c)'
<1>1. /\ calls' = calls /\ wire' = wire
      /\ walks'[c].throughout \subseteq walks[c].throughout
      /\ walks[c].throughout \subseteq listed => walks'[c].throughout \subseteq listed'
      /\ walks'[c].seen = walks[c].seen /\ walks'[c].twice = walks[c].twice
  <2>1. walks[c] \in Walks
    BY DEF Inv, TypeOK
  <2>2. ASSUME NEW m \in Positions, Delist(m)
        PROVE  /\ calls' = calls /\ wire' = wire /\ listed' = listed \ {m}
               /\ walks'[c].throughout = walks[c].throughout \ {m}
               /\ walks'[c].seen = walks[c].seen /\ walks'[c].twice = walks[c].twice
    BY <2>1, <2>2 DEF Delist, Walks
  <2>3. ASSUME NEW m \in Positions, List(m)
        PROVE  calls' = calls /\ wire' = wire /\ walks' = walks /\ listed \subseteq listed'
    BY <2>3 DEF List
  <2>4. CASE Execute
    BY <2>4 DEF Execute
  <2> QED  BY <2>2, <2>3, <2>4
<1>2. executions <= executions' /\ executions' \in Int /\ executions \in Int
  BY ReadAssumption DEF Inv, TypeOK, List, Delist, Execute
<1>3. Good(c) /\ calls[c] \in CallRecords /\ wire[c] \in Wires
  BY DEF Inv, TypeOK
<1>4. calls' = calls /\ wire' = wire
  BY DEF List, Delist, Execute
<1>5. Counted(c)'
  BY <1>3, <1>4 DEF Good, Counted, At, Tool, Reads
<1>6. Assembled(c)'
  <2>1. \A n : ShownBy(c, n) => ShownBy(c, n)'
    BY <1>4 DEF ShownBy
  <2>2. ShownBy(c, executions) => ShownBy(c, executions)'
    <3>1. \A s \in Sections : \A e \in calls[c].sections[s] : e \in Int
      BY <1>3, ReadAssumption DEF CallRecords, Executions
    <3> QED  BY <1>2, <1>4, <3>1 DEF ShownBy
  <2>3. (\A e \in wire[c].shown : e <= executions) => \A e \in wire[c].shown : e <= executions'
    <3>1. \A e \in wire[c].shown : e \in Int
      BY <1>3, ReadAssumption DEF Wires, Executions
    <3> QED  BY <1>2, <3>1
  <2>4. \A n \in 0..executions : n \in 0..executions'
    BY <1>2
  <2> QED
    BY <1>3, <1>4, <2>1, <2>2, <2>3, <2>4 DEF Good, Assembled, At, Tool, Section, Newest
<1>7. ASSUME Follows(c) PROVE Covered(c)' /\ PageFits(c)'
  <2>1. Covered(c) /\ PageFits(c)
    BY <1>3, <1>7 DEF Good, Walked
  <2>2. /\ walks'[c].throughout \subseteq walks[c].throughout
        /\ walks'[c].throughout \subseteq listed'
        /\ walks'[c].seen = walks[c].seen /\ walks'[c].twice = walks[c].twice
    BY <1>1, <2>1 DEF Covered
  <2>3. Covered(c)'
    BY <1>4, <2>1, <2>2 DEF Covered, Ended, Reached, At
  <2>4. PageFits(c)'
    BY <1>4, <2>1, <2>2 DEF PageFits
  <2> QED  BY <2>3, <2>4
<1>8. Walked(c)'
  BY <1>4, <1>7 DEF Walked, Follows, Tool
<1> QED  BY <1>5, <1>6, <1>8 DEF Good

(* A first call starts with nothing read; a walk, where listing stands.    *)
LEMMA AskGood ==
    ASSUME Inv, NEW c \in Calls, NEW tool \in Tools, NEW limit \in Limits, Ask(c, tool, limit)
    PROVE  Good(c)'
<1>1. calls'[c] = [NoCall EXCEPT !.pc = "check", !.tool = tool, !.limit = limit]
  BY DEF Ask, Inv, TypeOK
<1>2. /\ calls'[c].pc = "check" /\ calls'[c].tool = tool /\ calls'[c].asked = 0
      /\ calls'[c].cursor = 0 /\ \A s \in Sections : calls'[c].sections[s] = {}
  BY <1>1 DEF NoCall, Unread
<1>3. wire'[c] = wire[c] /\ wire[c].state = "none" /\ listed' = listed
  BY DEF Ask, At, Inv, TypeOK, Wires, Good, Counted, Exchange
<1>4. Counted(c)'
  BY <1>2, <1>3 DEF Counted, At, Tool, Reads
<1>5. Assembled(c)'
  BY <1>2 DEF Assembled, ShownBy, At, Tool
<1>6. ASSUME tool \in Paging PROVE Covered(c)' /\ PageFits(c)'
  <2>1. walks'[c] = [NoWalk EXCEPT !.throughout = listed]
    BY <1>6 DEF Ask, Inv, TypeOK
  <2>2. walks'[c].throughout = listed /\ walks'[c].seen = {} /\ ~walks'[c].twice
    BY <2>1 DEF NoWalk
  <2>3. \A m \in listed : ~(m <= 0)
    BY ReadAssumption DEF Inv, TypeOK, Positions
  <2> QED
    BY <1>2, <1>3, <2>2, <2>3 DEF Covered, PageFits, Ended, Reached, At
<1>7. Walked(c)'
  BY <1>2, <1>6 DEF Walked, Follows, Tool, Paging
<1> QED  BY <1>4, <1>5, <1>7 DEF Good

(* The next page is asked for from where the agent has come to.            *)
LEMMA AskOnGood ==
    ASSUME Inv, NEW c \in Calls, NEW limit \in Limits, AskOn(c, limit)
    PROVE  Good(c)'
<1>1. calls[c] \in CallRecords /\ Good(c)
  BY DEF Inv, TypeOK
<1>2. /\ calls'[c].pc = "check" /\ Tool(c)' = Tool(c) /\ calls'[c].asked = 0
      /\ calls'[c].cursor = Reached(c)
  BY <1>1 DEF AskOn, Reached, Tool, Inv, TypeOK, CallRecords
<1>3. /\ wire' = wire /\ walks' = walks /\ listed' = listed
      /\ wire[c].state = "none" /\ ~Ended(c)
  BY <1>1 DEF AskOn, At, Ended, Good, Counted, Inv, TypeOK, Wires, Exchange
<1>4. Counted(c)' /\ Assembled(c)'
  <2>1. Tool(c)' # "portfolio"
    BY <1>2 DEF AskOn, Paging
  <2> QED  BY <1>2, <1>3, <2>1 DEF Counted, Assembled, At, Tool, Reads
<1>5. Covered(c) => Covered(c)' /\ PageFits(c)'
  BY <1>2, <1>3 DEF Covered, PageFits, Ended, Reached, At
<1>6. Walked(c)'
  BY <1>1, <1>2, <1>5 DEF Good, Walked, Follows
<1> QED  BY <1>4, <1>6 DEF Good

(* Between two answers nothing is read: leaving, checking, sending and the *)
(* failures.                                                               *)
LEMMA PassingGood ==
    ASSUME Inv, NEW c \in Calls,
           Leave(c) \/ Check(c) \/ Send(c) \/ Refused(c) \/ Unreachable(c)
    PROVE  Good(c)'
<1>1. calls[c] \in CallRecords /\ Good(c)
  BY DEF Inv, TypeOK
<1>2. CASE Leave(c)
  <2>1. calls'[c] = NoCall /\ wire' = wire
    BY <1>2 DEF Leave, Inv, TypeOK
  <2>2. wire[c].state = "none"
    BY <1>1, <1>2 DEF Leave, At, Good, Counted
  <2> QED
    BY <2>1, <2>2 DEF NoCall, Good, Counted, Assembled, Walked, Follows, At, Tool, Reads
<1>3. CASE Check(c) \/ Send(c) \/ Refused(c) \/ Unreachable(c)
  <2>1. PICK label \in {"send", "wait", "failed"} :
          /\ calls'[c].pc = label
          /\ Tool(c)' = Tool(c) /\ calls'[c].cursor = calls[c].cursor
          /\ calls'[c].sections = calls[c].sections
          /\ calls'[c].asked = IF label = "wait" THEN calls[c].asked + 1 ELSE calls[c].asked
          /\ label = "wait" => At(c, "send") /\ wire'[c].state = "sent"
          /\ label = "send" => At(c, "check")
          /\ label # "wait" => wire'[c].state = "none"
    <3>1. CASE Check(c)
      <4>1. wire' = wire /\ wire[c].state = "none" /\ At(c, "check")
        BY <1>1, <3>1 DEF Check, At, Good, Counted
      <4>2. PICK label \in {"send", "failed"} : Goto(c, label)
        BY <3>1 DEF Check
      <4>3. calls'[c] = [calls[c] EXCEPT !.pc = label]
        BY <4>2, Went DEF Inv
      <4> QED  BY <1>1, <4>1, <4>3 DEF Tool, CallRecords
    <3>2. CASE Send(c)
      BY <1>1, <3>2 DEF Send, Tool, At, NoWire, Inv, TypeOK, CallRecords
    <3>3. CASE Refused(c) \/ Unreachable(c)
      <4>1. wire'[c].state = "none" /\ Goto(c, "failed")
        BY <3>3 DEF Refused, Unreachable, NoWire, Inv, TypeOK
      <4>2. calls'[c] = [calls[c] EXCEPT !.pc = "failed"]
        BY <4>1, Went DEF Inv
      <4> QED  BY <1>1, <4>1, <4>2 DEF Tool, CallRecords
    <3> QED  BY <1>3, <3>1, <3>2, <3>3
  <2>2. /\ walks' = walks /\ listed' = listed /\ executions' = executions
        /\ ~At(c, "told") /\ ~At(c, "told")'
    BY <1>3, <2>1 DEF Check, Send, Refused, Unreachable, At, Exchange
  <2>3. Counted(c)'
    BY <1>1, <2>1 DEF Good, Counted, At, Reads, CallRecords
  <2>4. Assembled(c)'
    <3>1. ~(At(c, "wait")' /\ wire'[c].state = "answered") /\ ~At(c, "told")'
      BY <2>1, <2>2 DEF At
    <3> QED  BY <1>1, <2>1, <2>2, <3>1 DEF Good, Assembled, ShownBy
  <2>5. Covered(c) => Covered(c)'
    BY <2>1, <2>2 DEF Covered, Ended, Reached, At
  <2>6. PageFits(c)'
    BY <2>1 DEF PageFits
  <2>7. Walked(c)'
    BY <1>1, <2>1, <2>5, <2>6 DEF Good, Walked, Follows
  <2> QED  BY <2>3, <2>4, <2>7 DEF Good
<1> QED  BY <1>2, <1>3

(* The exchange answers for the listing and the account of the moment.     *)
LEMMA ServeGood ==
    ASSUME Inv, NEW c \in Calls, Serve(c)
    PROVE  Good(c)'
<1>1. /\ calls[c] \in CallRecords /\ wire[c] \in Wires /\ Good(c)
      /\ At(c, "wait") /\ wire[c].state = "sent"
  BY DEF Serve, Inv, TypeOK, Good, Counted
<1>2. calls' = calls /\ walks' = walks /\ listed' = listed /\ executions' = executions
  BY DEF Serve, Exchange
<1>3. executions \in Nat
  BY ReadAssumption DEF Inv, TypeOK
<1>4. Counted(c)'
  BY <1>1, <1>2 DEF Good, Counted, At, Tool, Reads
<1>5. ASSUME Tool(c) = "portfolio", wire'[c].state = "answered"
      PROVE  /\ wire'[c].shown \subseteq 1..executions
             /\ Section(c) = Fills => wire'[c].shown = Newest(executions)
  <2>1. Tool(c) \notin Paging /\ Tool(c) # "single"
    BY <1>5 DEF Paging
  <2>2. PICK shown \in SUBSET Executions :
          IsFirstPage(Section(c), shown) /\ wire'[c].shown = shown
    BY <1>1, <1>5, <2>1 DEF Serve, Serves, Inv, TypeOK, Wires
  <2>3. Balance # Fills
    BY DEF Balance, Fills
  <2> QED  BY <2>2, <2>3 DEF IsFirstPage, Newest
<1>6. Assembled(c)'
  <2>1. ASSUME Tool(c) = "portfolio" PROVE ShownBy(c, executions)
    BY <1>1, <2>1 DEF Good, Assembled
  <2>2. executions \in 0..executions
    BY <1>3
  <2>3. ~At(c, "told")' /\ At(c, "wait")' /\ Tool(c)' = Tool(c) /\ Section(c)' = Section(c)
    BY <1>1, <1>2 DEF At, Tool, Section
  <2>4. \A n : ShownBy(c, n)' <=> ShownBy(c, n)
    BY <1>2 DEF ShownBy
  <2>5. CASE Tool(c) = "portfolio" /\ wire'[c].state = "answered"
    <3>1. \A e \in wire'[c].shown : e <= executions
      BY <1>3, <1>5, <2>5
    <3>2. Section(c) = Fills => wire'[c].shown = Newest(executions) /\ ShownBy(c, executions)
      BY <1>5, <2>1, <2>5
    <3> QED
      BY <1>2, <2>1, <2>2, <2>3, <2>4, <2>5, <3>1, <3>2 DEF Assembled, Newest
  <2>6. CASE ~(Tool(c) = "portfolio" /\ wire'[c].state = "answered")
    BY <1>2, <2>1, <2>3, <2>4, <2>6 DEF Assembled
  <2> QED  BY <2>5, <2>6
<1>7. ASSUME Follows(c), Covered(c) PROVE Covered(c)' /\ PageFits(c)'
  <2>1. Covered(c)'
    BY <1>2, <1>7 DEF Covered, Ended, Reached, At
  <2>2. ASSUME wire'[c].state = "answered"
        PROVE  PageFits(c)'
    <3>1. PICK page \in Pages :
            /\ IsPageAfter(page, calls[c].cursor, calls[c].limit)
            /\ wire'[c].page = page
      BY <1>1, <1>7, <2>2 DEF Serve, Serves, Follows, Paging, Query, Inv, TypeOK, Wires
    <3>2. PICK last \in 0..Last :
            /\ page.items = Between(calls[c].cursor, last)
            /\ \/ last \in page.items /\ page.cursor = last
               \/ last = Last /\ page.cursor = 0
      BY <3>1 DEF IsPageAfter
    <3>3. listed \subseteq 1..Last /\ calls[c].cursor \in Nat /\ Last \in Nat
      BY <1>1, ReadAssumption DEF Inv, TypeOK, Positions, CallRecords
    <3>4. walks[c].throughout \subseteq listed
      BY <1>7 DEF Covered
    <3>5. \A m \in page.items : calls[c].cursor < m /\ m <= last /\ m \in listed
      BY <3>2 DEF Between
    <3>6. \A m \in listed : calls[c].cursor < m /\ m <= last => m \in page.items
      BY <3>2 DEF Between
    <3>7. CASE last \in page.items /\ page.cursor = last
      <4>1. calls[c].cursor < page.cursor /\ page.cursor # 0
        BY <3>3, <3>5, <3>7
      <4>2. \A m \in page.items : calls[c].cursor < m /\ m <= page.cursor
        BY <3>5, <3>7
      <4>3. \A m \in walks[c].throughout :
              calls[c].cursor < m /\ m <= page.cursor => m \in page.items
        BY <3>4, <3>6, <3>7
      <4> QED  BY <1>2, <3>1, <4>1, <4>2, <4>3 DEF PageFits
    <3>8. CASE last = Last /\ page.cursor = 0
      <4>1. \A m \in walks[c].throughout : calls[c].cursor < m => m \in page.items
        <5>1. \A m \in listed : m <= last
          BY <3>3, <3>8
        <5> QED  BY <3>4, <3>6, <5>1
      <4>2. \A m \in page.items : calls[c].cursor < m
        BY <3>5
      <4> QED  BY <1>2, <3>1, <3>8, <4>1, <4>2 DEF PageFits
    <3> QED  BY <3>2, <3>7, <3>8
  <2>3. wire'[c].state # "answered" => PageFits(c)'
    BY DEF PageFits
  <2> QED  BY <2>1, <2>2, <2>3
<1>8. Walked(c)'
  BY <1>1, <1>2, <1>7 DEF Good, Walked, Follows, Tool
<1> QED  BY <1>4, <1>6, <1>8 DEF Good

(* An answer: a page is added to the walk, a section to the portfolio.     *)
LEMMA AnsweredGood ==
    ASSUME Inv, NEW c \in Calls, Answered(c)
    PROVE  Good(c)'
<1>1. /\ calls[c] \in CallRecords /\ wire[c] \in Wires /\ walks[c] \in Walks
      /\ Good(c) /\ At(c, "wait") /\ wire[c].state = "answered"
  BY DEF Answered, Inv, TypeOK
<1>2. wire'[c].state = "none" /\ listed' = listed /\ executions' = executions
  BY DEF Answered, NoWire, Exchange, Inv, TypeOK
<1>3. CASE Tool(c) \in Paging
  <2>1. /\ calls'[c].pc = "told" /\ calls'[c].page = wire[c].page
        /\ Tool(c)' = Tool(c) /\ calls'[c].asked = calls[c].asked
        /\ walks'[c].seen = walks[c].seen \cup wire[c].page.items
        /\ walks'[c].twice = (walks[c].twice \/ wire[c].page.items \cap walks[c].seen # {})
        /\ walks'[c].throughout = walks[c].throughout
    BY <1>1, <1>3 DEF Answered, Page, Tool, Paging, Inv, TypeOK, CallRecords, Walks
  <2>2. Counted(c)' /\ Assembled(c)'
    BY <1>1, <1>2, <1>3, <2>1 DEF Good, Counted, Assembled, At, Reads, Paging
  <2>3. ASSUME Covered(c), PageFits(c) PROVE Covered(c)' /\ PageFits(c)'
    <3>1. Reached(c) = calls[c].cursor /\ ~Ended(c)
      BY <1>1 DEF Reached, Ended, At
    <3>2. /\ walks[c].seen \subseteq Int /\ walks[c].throughout \subseteq Int
          /\ wire[c].page.items \subseteq Int
          /\ calls[c].cursor \in Int /\ wire[c].page.cursor \in Int
      BY <1>1, ReadAssumption DEF CallRecords, Wires, Pages, Walks, Positions
    <3>3. ~walks'[c].twice
      <4>1. \A m \in wire[c].page.items : m \notin walks[c].seen
        BY <1>1, <2>3, <3>1, <3>2 DEF Covered, PageFits
      <4> QED  BY <2>1, <2>3, <4>1 DEF Covered
    <3>4. CASE wire[c].page.cursor = 0
      <4>1. walks[c].throughout \subseteq walks[c].seen \cup wire[c].page.items
        BY <1>1, <2>3, <3>1, <3>2, <3>4 DEF Covered, PageFits
      <4> QED
        BY <1>2, <2>1, <2>3, <3>3, <3>4, <4>1 DEF Covered, PageFits, Ended, At
    <3>5. CASE wire[c].page.cursor # 0
      <4>1. \A m \in walks[c].seen \cup wire[c].page.items : m <= wire[c].page.cursor
        BY <1>1, <2>3, <3>1, <3>2, <3>5 DEF Covered, PageFits
      <4>2. \A m \in walks[c].throughout : m <= wire[c].page.cursor =>
              m \in walks[c].seen \cup wire[c].page.items
        BY <1>1, <2>3, <3>1, <3>2, <3>5 DEF Covered, PageFits
      <4> QED
        BY <1>2, <2>1, <2>3, <3>3, <3>5, <4>1, <4>2 DEF Covered, PageFits, Ended, Reached, At
    <3> QED  BY <3>4, <3>5
  <2>4. Walked(c)'
    BY <1>1, <2>1, <2>3 DEF Good, Walked, Follows
  <2> QED  BY <2>2, <2>4 DEF Good
<1>4. CASE Tool(c) = "portfolio"
  <2> DEFINE n == calls[c].asked
  <2>1. n \in 1..4 /\ n \in Sections
    BY <1>1, <1>4 DEF Good, Counted, Reads, CallRecords, Sections
  <2>2. PICK label \in {"send", "told"} :
          /\ calls' = [calls EXCEPT ![c] = [calls[c] EXCEPT !.pc = label,
                         !.sections = [calls[c].sections EXCEPT ![n] = wire[c].shown]]]
          /\ label = IF n < 4 THEN "send" ELSE "told"
    BY <1>1, <1>4 DEF Answered, Section, Reads, Paging, Inv, TypeOK
  <2>3. /\ calls'[c].pc = label /\ Tool(c)' = Tool(c) /\ calls'[c].asked = n
        /\ calls'[c].sections = [calls[c].sections EXCEPT ![n] = wire[c].shown]
    BY <1>1, <2>2 DEF Tool, Inv, TypeOK, CallRecords
  <2>4. Counted(c)'
    BY <1>1, <1>2, <1>4, <2>1, <2>2, <2>3 DEF Counted, At, Reads
  <2>5. /\ calls'[c].sections[n] = wire[c].shown
        /\ \A s \in Sections : s # n => calls'[c].sections[s] = calls[c].sections[s]
    BY <1>1, <2>1, <2>3 DEF CallRecords
  <2>6. /\ ShownBy(c, executions) /\ \A e \in wire[c].shown : e <= executions
        /\ n = Fills => \E k \in 0..executions : wire[c].shown = Newest(k) /\ ShownBy(c, k)
    BY <1>1, <1>4 DEF Good, Assembled, Section
  <2>7. ShownBy(c, executions)'
    BY <1>2, <2>5, <2>6 DEF ShownBy
  <2>8. ASSUME label = "told"
        PROVE  \E k \in 0..executions : calls'[c].sections[Fills] = Newest(k) /\ ShownBy(c, k)'
    <3>1. n = Fills
      BY <2>1, <2>2, <2>8 DEF Fills
    <3>2. PICK k \in 0..executions : wire[c].shown = Newest(k) /\ ShownBy(c, k)
      BY <2>6, <3>1
    <3>3. \A e \in Newest(k) : e <= k
      BY <3>2 DEF Newest
    <3>4. ShownBy(c, k)'
      BY <2>5, <3>2, <3>3 DEF ShownBy
    <3> QED  BY <2>5, <3>1, <3>2, <3>4
  <2>9. Assembled(c)'
    <3>1. At(c, "told")' => label = "told"
      BY <2>3 DEF At
    <3>2. ~At(c, "wait")'
      BY <2>3 DEF At
    <3> QED  BY <1>2, <2>7, <2>8, <3>1, <3>2 DEF Assembled, Newest
  <2>10. Walked(c)'
    BY <1>4, <2>3 DEF Walked, Follows
  <2> QED  BY <2>4, <2>9, <2>10 DEF Good
<1>5. CASE Tool(c) = "single" /\ Goto(c, "told")
  <2>1. calls'[c] = [calls[c] EXCEPT !.pc = "told"]
    BY <1>5, Went DEF Inv
  <2>2. calls'[c].pc = "told" /\ Tool(c)' = "single" /\ calls'[c].asked = calls[c].asked
    BY <1>1, <1>5, <2>1 DEF Tool, CallRecords
  <2> QED
    BY <1>1, <1>2, <1>5, <2>2 DEF Good, Counted, Assembled, Walked, Follows, At, Reads
<1> QED  BY <1>3, <1>4, <1>5 DEF Answered

-----------------------------------------------------------------------------
(* Nothing is asked for at first.                                          *)
LEMMA InvInit == Init => Inv
<1> SUFFICES ASSUME Init PROVE Inv
  OBVIOUS
<1>1. TypeOK
  BY Blank, ReadAssumption DEF Init, TypeOK
<1>2. ASSUME NEW c \in Calls PROVE Good(c)
  BY DEF Init, NoCall, NoWire, Good, Counted, Assembled, Walked, Follows, At, Tool, Reads
<1> QED  BY <1>1, <1>2 DEF Inv

(* A step of one call leaves the records of the others alone.              *)
LEMMA OnlyOne ==
    ASSUME Inv, NEW c \in Calls, NEW d \in Calls, d # c,
           \/ \E tool \in Tools, limit \in Limits : Ask(c, tool, limit)
           \/ \E limit \in Limits : AskOn(c, limit)
           \/ Leave(c) \/ Serve(c) \/ Step(c)
    PROVE  Good(d)'
<1>1. UNCHANGED Exchange
  BY DEF Ask, AskOn, Leave, Serve, Step, Check, Send, Answered, Refused, Unreachable
<1>2. calls'[d] = calls[d]
  BY DEF Ask, AskOn, Leave, Serve, Step, Check, Send, Answered, Refused, Unreachable, Goto,
         Inv, TypeOK
<1>3. wire'[d] = wire[d] /\ walks'[d] = walks[d]
  BY DEF Ask, AskOn, Leave, Serve, Serves, Step, Check, Send, Answered, Refused, Unreachable,
         Inv, TypeOK
<1> QED  BY <1>1, <1>2, <1>3, Untouched DEF Inv

(* Every step keeps the invariant.                                         *)
LEMMA InvNext == Inv /\ [Next]_vars => Inv'
<1> SUFFICES ASSUME Inv, [Next]_vars PROVE Inv'
  OBVIOUS
<1>1. TypeOK'
  BY TypeStep
<1>2. ASSUME NEW d \in Calls PROVE Good(d)'
  <2>1. CASE UNCHANGED vars
    BY <2>1, Untouched DEF vars, Exchange, Inv
  <2>2. CASE (\E m \in Positions : List(m) \/ Delist(m)) \/ Execute
    BY <2>2, ExchangeStep
  <2>3. ASSUME NEW c \in Calls,
               \/ \E tool \in Tools, limit \in Limits : Ask(c, tool, limit)
               \/ \E limit \in Limits : AskOn(c, limit)
               \/ Leave(c) \/ Serve(c) \/ Step(c)
        PROVE  Good(d)'
    <3>1. CASE d # c
      BY <2>3, <3>1, OnlyOne
    <3>2. CASE d = c
      BY <2>3, <3>2, AskGood, AskOnGood, PassingGood, ServeGood, AnsweredGood DEF Step
    <3> QED  BY <3>1, <3>2
  <2> QED  BY <2>1, <2>2, <2>3 DEF Next
<1> QED  BY <1>1, <1>2 DEF Inv

(* Every reachable state is well typed (ReadTools).                        *)
THEOREM TypeCorrect == Spec => []TypeOK
<1>1. Inv => TypeOK
  BY DEF Inv
<1> QED  BY <1>1, InvInit, InvNext, PTL DEF Spec

(* Following cursors never shows a row twice (SearchEventMarkets and       *)
(* GetEventTrades pass the cursor on as it came).                          *)
THEOREM NothingTwice == Spec => []NoRowTwice
<1>1. Inv => NoRowTwice
  BY DEF Inv, Good, Walked, Covered, NoRowTwice
<1> QED  BY <1>1, InvInit, InvNext, PTL DEF Spec

(* A walk that ends has missed nothing that stayed listed.                 *)
THEOREM NothingMissed == Spec => []WalkReadsAll
<1>1. Inv => WalkReadsAll
  BY DEF Inv, Good, Walked, Covered, Ended, WalkReadsAll
<1> QED  BY <1>1, InvInit, InvNext, PTL DEF Spec

(* The newest of more than a page of executions are a page.                *)
LEMMA FullPage ==
    ASSUME NEW n \in Nat, NEW e \in 1..n, e \notin Newest(n)
    PROVE  Cardinality(Newest(n)) = FillPage /\ \A f \in Newest(n) : e < f
<1>1. FillPage \in Nat /\ FillPage >= 1 /\ e <= n - FillPage
  BY ReadAssumption DEF Newest
<1>2. Newest(n) = (n - FillPage + 1)..n
  BY <1>1 DEF Newest
<1>3. n - FillPage + 1 \in Int /\ ~(n - FillPage + 1 > n) /\ n - (n - FillPage + 1) + 1 = FillPage
  BY <1>1
<1>4. Cardinality(Newest(n)) = FillPage
  BY <1>2, <1>3, FS_Interval
<1> QED  BY <1>1, <1>4 DEF Newest

(* A recent execution that a portfolio shows is among its fills            *)
(* (GetPortfolio reads them last and tells nothing if a read fails).       *)
THEOREM RecentExplained == Spec => []FillsExplainRecent
<1>1. Inv => FillsExplainRecent
  <2> SUFFICES ASSUME Inv, NEW c \in Calls, At(c, "told"), Tool(c) = "portfolio",
                      NEW s \in Sections, NEW e \in calls[c].sections[s],
                      e \notin calls[c].sections[Fills]
               PROVE  /\ Cardinality(calls[c].sections[Fills]) = FillPage
                      /\ \A f \in calls[c].sections[Fills] : e < f
    BY DEF FillsExplainRecent
  <2>1. PICK n \in 0..executions : calls[c].sections[Fills] = Newest(n) /\ ShownBy(c, n)
    BY DEF Inv, Good, Assembled
  <2>2. n \in Nat /\ e \in Executions
    BY <2>1, ReadAssumption DEF Inv, TypeOK, CallRecords
  <2>3. e \in 1..n
    BY <2>1, <2>2, ReadAssumption DEF ShownBy, Executions
  <2> QED  BY <2>1, <2>2, <2>3, FullPage
<1> QED  BY <1>1, InvInit, InvNext, PTL DEF Spec
=============================================================================
