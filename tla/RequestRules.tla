---------------------------- MODULE RequestRules ----------------------------
(***************************************************************************)
(* The decisions a request meets on its way into the service, as           *)
(* operators: who is asking (transport/grpc/server.go, auth), for which    *)
(* tenant (service.go authorize), whether an export fits the dataset's     *)
(* descriptor (service.go validateDataset), and which rows a page holds    *)
(* (service.go List, repository.go List, provider.go ListDatasets).        *)
(*                                                                         *)
(* Texts are classes: a query value is one of QueryValues, an identifier   *)
(* is blank or not, after the code's trimming and lower-casing.            *)
(***************************************************************************)
EXTENDS Integers, Sequences

CONSTANTS
    IntLimit,       \* 2^31: the paging arithmetic is done in int32
    DefaultSize,    \* 20, the page size of a request that gives none
    ListLimit,      \* 200, the largest page of jobs
    CatalogLimit    \* 100, the largest page of datasets

ASSUME PagingAssumption ==
    /\ IntLimit \in Nat \ {0}
    /\ DefaultSize \in 1..ListLimit
    /\ DefaultSize \in 1..CatalogLimit
    /\ ListLimit \in 1..(IntLimit - 1)
    /\ CatalogLimit \in 1..(IntLimit - 1)

-----------------------------------------------------------------------------
(* Who is asking *)

Nobody == [type |-> "nobody", tenant |-> ""]
ServiceAccount == [type |-> "service", tenant |-> ""]
UserOf(tenant) == [type |-> "user", tenant |-> tenant]

\* A credential is missing, not valid, the pre-shared key, or a token; a token
\* the service has issued itself names no tenant.
Credentials == {"none", "invalid", "psk", "t1", "t2", "local", "service"}

\* service.Verify: the principal of a valid token.
Verify(credential) ==
    CASE credential = "service" -> ServiceAccount
      [] credential = "local" -> UserOf("")
      [] OTHER -> UserOf(credential)

\* The principal, or nothing.  A route may be listed for the pre-shared key,
\* else for no authentication at all; every other one takes a token.
authenticateGRPC(route, credential) ==
    CASE route = "psk" -> IF credential = "psk" THEN {ServiceAccount} ELSE {}
      [] route = "skip" -> {Nobody}
      [] OTHER -> IF credential \in {"t1", "t2", "local", "service"}
                  THEN {Verify(credential)} ELSE {}

\* Mutant of authorize: a token without a tenant passes for every tenant.
authorizeTenantless(principal, tenant) ==
    CASE principal = Nobody -> "unauthorized"
      [] /\ principal.type # "service"
         /\ principal.tenant # ""
         /\ principal.tenant # tenant -> "forbidden"
      [] OTHER -> "ok"

authorize(principal, tenant) ==
    CASE principal = Nobody -> "unauthorized"
      [] /\ principal.type # "service"
         /\ principal.tenant = "" \/ principal.tenant # tenant -> "forbidden"
      [] OTHER -> "ok"

\* authorizeScope and verifyCatalogScope, up to the call to the application
\* service.
ScopeVerdict(principal, tenant, application) ==
    IF authorize(principal, tenant) # "ok" THEN authorize(principal, tenant)
    ELSE IF tenant = "" \/ application = "" THEN "invalid"
    ELSE "ok"

-----------------------------------------------------------------------------
(* Does an export fit the dataset? *)

\* An empty text, a timestamp, another text, a number without and with a fraction,
\* a truth value, null, an array or an object.
QueryValues == {"blank", "stamp", "text", "whole", "fraction", "flag", "null", "other"}

Texts == {"blank", "stamp", "text"}

validateQueryValue(value, field) ==
    CASE field.type \in {"string", "datetime"} ->
            /\ value \in Texts
            /\ field.type = "datetime" => value \in {"blank", "stamp"}
            /\ field.options # {} => value \in field.options
      [] field.type = "integer" -> value = "whole"
      [] field.type = "number" -> value \in {"whole", "fraction"}
      [] field.type = "boolean" -> value = "flag"
      [] OTHER -> FALSE

\* The field that describes key: the last one with that key.
Describes(fields, i, key) ==
    /\ key # "" /\ fields[i].key = key
    /\ \A j \in DOMAIN fields : fields[j].key = key => j <= i

validateQuery(query, fields) ==
    /\ \A i \in DOMAIN fields :
        fields[i].required /\ fields[i].key # "" => fields[i].key \in DOMAIN query
    /\ \A key \in DOMAIN query :
        \E i \in DOMAIN fields :
            Describes(fields, i, key) /\ validateQueryValue(query[key], fields[i])

\* The selected columns are exposed and none is selected twice.
validateColumns(selected, columns) ==
    \A i \in DOMAIN selected :
        /\ selected[i] \in columns
        /\ \A j \in 1..(i - 1) : selected[j] # selected[i]

validateDataset(input, dataset) ==
    /\ input.format \in dataset.formats
    /\ validateQuery(input.query, dataset.fields)
    /\ validateColumns(input.selected, dataset.columns)

\* What the provider was promised, without the order of the checks: a known
\* format, an argument for everything it requires, nothing it has not
\* declared, no value outside of what a declaration of that name allows (the
\* code reads options only for texts), and columns it has, each once.
FitsDataset(input, dataset) ==
    LET declared == {dataset.fields[i] : i \in DOMAIN dataset.fields}
        named(key) == {f \in declared : f.key = key}
    IN  /\ input.format \in dataset.formats
        /\ {f.key : f \in {g \in declared : g.required}} \ {""} \subseteq DOMAIN input.query
        /\ \A key \in DOMAIN input.query :
            \E f \in named(key) :
                /\ f.options # {} => f.type \notin {"string", "datetime"}
                                        \/ input.query[key] \in f.options
                /\ input.query[key] \notin {"null", "other"}
        /\ {input.selected[i] : i \in DOMAIN input.selected} \subseteq dataset.columns
        /\ \A i, j \in DOMAIN input.selected :
                input.selected[i] = input.selected[j] => i = j

-----------------------------------------------------------------------------
(* Pages *)

\* The int32 that an integer becomes.
Int32(x) == ((x + IntLimit) % (2 * IntLimit)) - IntLimit

AtLeastOne(page) == IF page < 1 THEN 1 ELSE page

Capped(size, limit) ==
    IF size < 1 THEN DefaultSize ELSE IF size > limit THEN limit ELSE size

\* Service.List normalizes page and size for the query, ...
ListFilter(page, size) == [page |-> AtLeastOne(page), size |-> Capped(size, ListLimit)]

\* ... the handlers repeat them in the answer, and the catalogue has a limit of
\* its own.
normalizeCatalogPage(page, size) ==
    [page |-> AtLeastOne(page), size |-> Capped(size, CatalogLimit)]

\* Mutant of Offset: the first page is page zero.
OffsetFromZero(filter) == Int32(filter.page * filter.size)

Offset(filter) == Int32((filter.page - 1) * filter.size)

\* The positions LIMIT and OFFSET select among total rows in order, and the
\* slice of the catalogue.
Positions(filter, total) ==
    {i \in 1..total : Offset(filter) < i /\ i <= Offset(filter) + filter.size}

\* The database refuses a negative offset, and slicing by one panics: both end
\* as an internal error.
Refuses(filter) == Offset(filter) < 0
=============================================================================
