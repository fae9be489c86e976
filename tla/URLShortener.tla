---------------------------- MODULE URLShortener ----------------------------
(***************************************************************************)
(* projects/09-url-shortener: class URLShortenerServer's handleRequest over*)
(* class URLShortenerService.  The service's asynchronous methods await    *)
(* nothing, so a request is one step.  The database, the cache and the     *)
(* message queue outlive the service, which may be constructed anew over   *)
(* them.                                                                   *)
(*                                                                         *)
(* A key is its sequence of digits in base Base; the digit Base stands for *)
(* every character that is none.  The database is the sequence of its rows *)
(* in the order of their insertion, which is the order of a Map.           *)
(***************************************************************************)
EXTENDS Integers, Sequences, FiniteSets

CONSTANTS
  Base,                  \* 62 in the code
  URLs, EmptyURL,        \* the empty string is false where a URL is tested
  FirstId,               \* 100000 in the code
  MaxId,                 \* bound: identifiers handed out
  Preloaded,             \* databases the service may be constructed over
  Requested              \* keys that clients ask for

VARIABLES
  db, cache, reverseDb, nextId,
  response,              \* of the last request
  published,             \* the keys of the clicks it published
  given,                 \* history: <<url, key>> as returned by shorten
  reissued               \* history: identifiers handed out while in use

serviceVars == <<reverseDb, nextId>>
storeVars == <<db, cache>>
vars == <<storeVars, serviceVars, response, published, given, reissued>>

(* A database is a Map: it has one row for an identifier.                  *)
ConstantsFit ==
  /\ Base \in Nat /\ Base > 1
  /\ FirstId \in Nat /\ MaxId \in Nat /\ FirstId <= MaxId + 1
  /\ Requested \subseteq Seq(Nat)
  /\ \A rows \in Preloaded :
       /\ rows \in Seq([id : Nat, url : URLs])
       /\ \A i, j \in DOMAIN rows : rows[i].id = rows[j].id => i = j
-----------------------------------------------------------------------------
Encode[id \in Nat] ==
  IF id < Base THEN <<id>> ELSE Append(Encode[id \div Base], id % Base)
Valid(key) == \A i \in DOMAIN key : key[i] < Base
DecodeFirst[key \in Seq(Nat)] ==
  IF key = <<>> THEN 0
  ELSE DecodeFirst[SubSeq(key, 1, Len(key) - 1)] * Base + key[Len(key)]
Decode(key) == DecodeFirst[key]

Rows(id) == {i \in DOMAIN db : db[i].id = id}
Lookup(id) == {db[i].url : i \in Rows(id)}
SetRow(id, url) ==
  IF Rows(id) = {} THEN Append(db, [id |-> id, url |-> url])
  ELSE [i \in DOMAIN db |-> IF i \in Rows(id) THEN [id |-> id, url |-> url] ELSE db[i]]

Extend(f, x, y) == [z \in DOMAIN f \cup {x} |-> IF z = x THEN y ELSE f[z]]

(* The constructor's loop: the last row of a URL wins.                     *)
LastRowOf(rows, url) ==
  CHOOSE i \in DOMAIN rows : rows[i].url = url /\ \A j \in DOMAIN rows : rows[j].url = url => j <= i
Reversed(rows) ==
  [url \in {rows[i].url : i \in DOMAIN rows} |-> rows[LastRowOf(rows, url)].id]

Init ==
  /\ db \in Preloaded
  /\ cache = [k \in {} |-> 0]
  /\ reverseDb = Reversed(db)
  /\ nextId = FirstId
  /\ response = [status |-> 0]
  /\ published = <<>>
  /\ given = {}
  /\ reissued = {}
-----------------------------------------------------------------------------
Known(url) == url \in DOMAIN reverseDb

(* shorten(): the identifier the URL has, or the next one, whose row is    *)
(* overwritten if the database has it already.                             *)
Shorten(url) ==
  LET id == IF Known(url) THEN reverseDb[url] ELSE nextId IN
  /\ response' = [status |-> 201, key |-> Encode[id]]
  /\ given' = given \cup {<<url, Encode[id]>>}
  /\ IF Known(url)
     THEN UNCHANGED <<db, serviceVars, reissued>>
     ELSE /\ nextId <= MaxId
          /\ nextId' = nextId + 1
          /\ db' = SetRow(id, url)
          /\ reverseDb' = Extend(reverseDb, url, id)
          /\ reissued' = reissued \cup {j \in {id} : Rows(j) # {}}
  /\ published' = <<>>
  /\ UNCHANGED cache

(* POST /shorten without a string is refused.                              *)
PostInvalid ==
  /\ response' = [status |-> 400]
  /\ published' = <<>>
  /\ UNCHANGED <<storeVars, serviceVars, given, reissued>>

LastDigitOf(key) == IF key = <<>> THEN key ELSE <<key[Len(key)]>>   \* mutant
CacheKeyOf(key) == key
NotEmpty(urls) == urls \ {EmptyURL}
Cached(key) == NotEmpty({cache[k] : k \in {CacheKeyOf(key)} \cap DOMAIN cache})
Stored(key) == IF Valid(key) THEN NotEmpty(Lookup(Decode(key))) ELSE {}

Clicks(key) == <<key>>

(* GET /s/:key and resolve(): from the cache, or from the database into the*)
(* cache; either way a click is published.                                 *)
Resolve(key) ==
  \/ /\ key = <<>>
     /\ response' = [status |-> 400]
     /\ published' = <<>>
     /\ UNCHANGED cache
  \/ \E url \in Cached(key) :
       /\ response' = [status |-> 302, location |-> url]
       /\ published' = Clicks(key)
       /\ UNCHANGED cache
  \/ /\ key # <<>> /\ Cached(key) = {}
     /\ \E url \in Stored(key) :
          /\ response' = [status |-> 302, location |-> url]
          /\ published' = Clicks(key)
          /\ cache' = Extend(cache, CacheKeyOf(key), url)
  \/ /\ key # <<>> /\ Cached(key) = {} /\ Stored(key) = {}
     /\ response' = [status |-> 404]
     /\ published' = <<>>
     /\ UNCHANGED cache

Get(key) == Resolve(key) /\ UNCHANGED <<db, serviceVars, given, reissued>>

(* A new service over the same database and cache counts from FirstId.     *)
NextIdOfNew == FirstId
Restart ==
  /\ reverseDb' = Reversed(db)
  /\ nextId' = NextIdOfNew
  /\ UNCHANGED <<storeVars, response, published, given, reissued>>

Next ==
  \/ \E url \in URLs : Shorten(url)
  \/ PostInvalid
  \/ \E key \in Requested : Get(key)
  \/ Restart

Spec == Init /\ [][Next]_vars
-----------------------------------------------------------------------------
(* Every variable has its type.                                            *)
TypeOK ==
  /\ \A i \in DOMAIN db : db[i].id \in Nat /\ db[i].url \in URLs
  /\ nextId \in FirstId..(MaxId + 1)
  /\ DOMAIN reverseDb \subseteq URLs
  /\ response.status \in {0, 201, 302, 400, 404}

(* A key once given for a URL leads to it, through the cache or the        *)
(* database and across restarts; leading zeros make no difference.  Not so *)
(* where an identifier was handed out twice, or the URL is empty.          *)
Target(key) == IF Cached(key) # {} THEN Cached(key) ELSE Stored(key)
KeysLead(keys) ==
  \A g \in given : g[1] # EmptyURL /\ Decode(g[2]) \in keys =>
    \A key \in Requested \cup {g[2]} :
      key # <<>> /\ Valid(key) /\ Decode(key) = Decode(g[2]) => Target(key) = {g[1]}
KeysLeadToTheirURLs == KeysLead(Nat \ reissued)

(* A URL has one key, also after a restart over a database that holds it   *)
(* twice, while no identifier has been handed out twice.                   *)
OneKeyPerURL ==
  reissued = {} => \A g, h \in given : g[1] = h[1] => g[2] = h[2]

(* Every redirect publishes one click under the key asked for, from the    *)
(* cache as from the database; nothing else publishes any.                 *)
EveryRedirectCounted == (response.status = 302) <=> (Len(published) = 1)

(* All three: what a caller was promised for a URL is what a reader gets.  *)
PromisesKept == KeysLeadToTheirURLs /\ OneKeyPerURL /\ EveryRedirectCounted
=============================================================================
