------------------------------ MODULE Classify ------------------------------
(***************************************************************************)
(* Who a client says it is: classifyUAlib with the project's own rules,    *)
(* and whether its network backs the claim (evaluateKnownBot).  Matching a *)
(* User-Agent is data: a User-Agent is given by the name the parser gives  *)
(* it, the marks (substrings of the lists) it contains and what the two    *)
(* bot detectors say.  Operators only; Decision runs them.                 *)
(***************************************************************************)
EXTENDS Integers, Sequences, FiniteSetsExt

CONSTANTS
  BotASN,    \* botASN: known bots and their networks
  KnownMark, \* knownUASubstr: marks and the bots they stand for
  Social,    \* socialCloud and socialUASubstr, as names and as marks
  AI,        \* aiCrawlers, as names and as marks
  Bad,       \* seoBlacklist, as names and as marks
  ToolMark,  \* toolAgents
  TechMark,  \* techAllowlist
  BlockAI    \* Params.BlockAI

ASSUME ListsAssumption ==
  /\ \A m \in DOMAIN KnownMark : KnownMark[m] \in DOMAIN BotASN
  /\ "" \notin UNION {DOMAIN BotASN, DOMAIN KnownMark, Social, AI, Bad, ToolMark,
                      TechMark}
  /\ BlockAI \in BOOLEAN

RuleActions == {"allow", "block", "challenge", "score", "known_bot"}

RulesModes == {"append", "override"}

\* No rule names neither a mark nor a parser's name.
RulesOf(names, marks, botNames, networks) ==
  {r \in [name : names, match : marks, botName : botNames, action : RuleActions,
          asns : SUBSET networks] : r.name # "" \/ r.match # ""}

Agents == [name : STRING, marks : SUBSET STRING, crawler : BOOLEAN, bot : BOOLEAN,
           empty : BOOLEAN]

------------------------------------------------------------------------------
(* Rules *)

Matches(r, ua) == \/ r.name # "" /\ r.name = ua.name
                  \/ r.match # "" /\ r.match \in ua.marks

\* matchRules: the rules that match; the first of them counts.
Matching(rules, ua) == {i \in DOMAIN rules : Matches(rules[i], ua)}

\* The name a rule stands for, which NewConfig and kindOf must agree on.
NameOf(r) == IF r.botName # "" THEN r.botName
             ELSE IF r.name # "" THEN r.name ELSE r.match

Class(kind, name) == [kind |-> kind, name |-> name]

\* Rule.kindOf
KindOf(r) == CASE r.action = "allow"     -> Class("unknown_bot", NameOf(r))
               [] r.action = "block"     -> Class("bad_bot", NameOf(r))
               [] r.action = "challenge" -> Class("tool_agent", NameOf(r))
               [] r.action = "known_bot" -> Class("known_bot", NameOf(r))
               [] r.action = "score"     -> Class("browser", "")

\* MUTANT of CustomASN: NewConfig passes over BotName.
CustomASNByName(rules) ==
  LET known == {i \in DOMAIN rules : rules[i].action = "known_bot" /\ rules[i].asns # {}}
      name(r) == IF r.name # "" THEN r.name ELSE r.match
  IN  [n \in {name(rules[i]) : i \in known} |->
         rules[Max({i \in known : name(rules[i]) = n})].asns]

\* customBotASN, built by NewConfig: of rules with one name the last counts.
CustomASN(rules) ==
  LET known == {i \in DOMAIN rules : rules[i].action = "known_bot" /\ rules[i].asns # {}}
  IN  [n \in {NameOf(rules[i]) : i \in known} |->
         rules[Max({i \in known : NameOf(rules[i]) = n})].asns]

\* Config.BotASN[name]: networks from rules take precedence.
NetworksOf(rules, name) ==
  LET custom == CustomASN(rules)
  IN  IF name \in DOMAIN custom THEN custom[name]
      ELSE IF name \in DOMAIN BotASN THEN BotASN[name] ELSE {}

------------------------------------------------------------------------------
(* classifyUAlib *)

\* matchKnownByUA.  (BOUND: at most one mark of knownUASubstr is tried in a
\* User-Agent.)
MarkedAs(ua) ==
  LET known == ua.marks \cap DOMAIN KnownMark
  IN  IF known = {} THEN "" ELSE KnownMark[CHOOSE m \in known : TRUE]

\* MUTANT of BuiltIn: the tools are looked for before the known bots.
BuiltInToolsFirst(ua) ==
  LET named(kind) == Class(kind, ua.name)
      lists == <<
        <<ua.marks \cap TechMark # {}, Class("browser", "")>>,
        <<ua.marks \cap ToolMark # {} \/ ua.crawler, named("tool_agent")>>,
        <<ua.name \in Social \/ ua.marks \cap Social # {}, named("behavioral")>>,
        <<ua.name \in DOMAIN BotASN, named("known_bot")>>,
        <<MarkedAs(ua) # "", Class("known_bot", MarkedAs(ua))>>,
        <<ua.name \in AI \/ ua.marks \cap AI # {},
          named(IF BlockAI THEN "bad_bot" ELSE "ai_bot")>>,
        <<ua.name \in Bad \/ ua.marks \cap Bad # {}, named("bad_bot")>>,
        <<ua.bot, named("unknown_bot")>>,
        <<TRUE, Class("browser", "")>> >>
  IN  lists[Min({i \in DOMAIN lists : lists[i][1]})][2]

\* The built-in lists in their order; the first that applies counts.  (The names
\* of the other bots are for the statistics.)
BuiltIn(ua) ==
  LET named(kind) == Class(kind, ua.name)
      lists == <<
        <<ua.marks \cap TechMark # {}, Class("browser", "")>>,
        <<ua.name \in Social \/ ua.marks \cap Social # {}, named("behavioral")>>,
        <<ua.name \in DOMAIN BotASN, named("known_bot")>>,
        <<MarkedAs(ua) # "", Class("known_bot", MarkedAs(ua))>>,
        <<ua.name \in AI \/ ua.marks \cap AI # {},
          named(IF BlockAI THEN "bad_bot" ELSE "ai_bot")>>,
        <<ua.name \in Bad \/ ua.marks \cap Bad # {}, named("bad_bot")>>,
        <<ua.marks \cap ToolMark # {} \/ ua.crawler, named("tool_agent")>>,
        <<ua.bot, named("unknown_bot")>>,
        <<TRUE, Class("browser", "")>> >>
  IN  lists[Min({i \in DOMAIN lists : lists[i][1]})][2]

\* MUTANT of ClassifyUA: the built-in lists go first.
ClassifyUABuiltInFirst(rules, mode, ua) ==
  LET builtIn == BuiltIn(ua)
  IN  IF ua.empty THEN Class("empty", "")
      ELSE IF builtIn.kind # "browser" THEN builtIn
      ELSE IF Matching(rules, ua) # {} THEN KindOf(rules[Min(Matching(rules, ua))])
      ELSE Class("browser", "")

\* Rules come first; in override mode nothing comes after them.
ClassifyUA(rules, mode, ua) ==
  IF ua.empty THEN Class("empty", "")
  ELSE IF Matching(rules, ua) # {} THEN KindOf(rules[Min(Matching(rules, ua))])
  ELSE IF mode = "override" THEN Class("browser", "")
  ELSE BuiltIn(ua)

\* Does the network asn (NoASN: the header says nothing) belong to the bot?
NoASN == 0

BotNet(rules, class, asn) ==
  LET networks == NetworksOf(rules, class.name)
  IN  IF networks = {} \/ asn = NoASN THEN "unknown"
      ELSE IF asn \in networks THEN "own" ELSE "foreign"
=============================================================================
