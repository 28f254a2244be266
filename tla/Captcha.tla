------------------------------ MODULE Captcha -------------------------------
(***************************************************************************)
(* pkg/captcha over pkg/cache: one captcha, generated by one instance of   *)
(* the application and verified, several times perhaps, by any.  A         *)
(* verification reads the answer, compares, reads it again and deletes it. *)
(***************************************************************************)
EXTENDS Integers, FiniteSets

CONSTANTS
    Instances,      \* of the application
    Verifiers       \* calls of Verify for the one captcha

VARIABLES
    driver,         \* the cache behind the store: memory, redis or multi
    l1,             \* instances whose memory cache has the answer
    l2,             \* does Redis have it
    warming,        \* instances with a warm-up of L1 under way
    image,          \* is the captcha generated
    verify,         \* of each call: where it is, at which instance, what came of it
    failed          \* history: the cache failed a read or a delete

captchaVars == <<driver, l1, l2, warming, image, verify, failed>>

CaptchaTypeOK ==
    /\ driver \in {"memory", "redis", "multi"} /\ {l2, image, failed} \subseteq BOOLEAN
    /\ l1 \subseteq Instances /\ warming \subseteq Instances
    /\ \A v \in Verifiers :
        /\ verify[v].at \in {"before", "probe", "reget", "delete", "done"}
        /\ verify[v].result \in {"", "ok", "not_found", "not_matched"}

CaptchaInit ==
    /\ driver \in {"memory", "redis", "multi"}
    /\ l1 = {} /\ l2 = FALSE /\ warming = {} /\ image = FALSE /\ failed = FALSE
    /\ verify = [v \in Verifiers |-> [at |-> "before", inst |-> CHOOSE i \in Instances : TRUE,
                                      right |-> FALSE, after |-> FALSE, result |-> ""]]

\* The cache: Get looks into memory, then into Redis, and warms memory up later.
Has1(i) == driver # "redis" /\ i \in l1
Has2 == driver # "memory" /\ l2
CacheHas(i) == Has1(i) \/ Has2
Warms(i) == warming' = IF driver = "multi" /\ ~ Has1(i) /\ Has2 THEN warming \cup {i} ELSE warming

WarmUp(i) ==
    /\ i \in warming
    /\ warming' = warming \ {i} /\ l1' = l1 \cup {i}
    /\ UNCHANGED <<driver, l2, image, verify, failed>>

\* Generate: Store.Set at the instance asked.  If it fails no identifier is given
\* out, and the captcha that is verified is the next one.
Generate(i) ==
    /\ ~ image /\ image' = TRUE
    /\ l1' = IF driver = "redis" THEN {} ELSE {i}
    /\ l2' = (driver # "memory")
    /\ UNCHANGED <<driver, warming, verify, failed>>

\* The time to live ends, or the entry is evicted.
Expire1(i) == i \in l1 /\ l1' = l1 \ {i} /\ UNCHANGED <<driver, l2, warming, image, verify, failed>>
Expire2 == l2 /\ l2' = FALSE /\ UNCHANGED <<driver, l1, warming, image, verify, failed>>

Spent == \E v \in Verifiers : verify[v].at = "done" /\ verify[v].result \in {"ok", "not_matched"}

\* Verify is called, at some instance, with a right answer or a wrong one.
VerifyCall(v, i, right) ==
    /\ image /\ verify[v].at = "before"
    /\ verify' = [verify EXCEPT ![v] = [at |-> "probe", inst |-> i, right |-> right,
                                        after |-> Spent, result |-> ""]]
    /\ UNCHANGED <<driver, l1, l2, warming, image, failed>>

Go2(v, at, result) == verify' = [verify EXCEPT ![v].at = at, ![v].result = result]

\* Store.Get(id, false): ErrNotFound, or the answers are compared.
Probe(v) ==
    /\ verify[v].at = "probe"
    /\ IF CacheHas(verify[v].inst)
       THEN Go2(v, "reget", IF verify[v].right THEN "ok" ELSE "not_matched")
       ELSE Go2(v, "done", "not_found")
    /\ Warms(verify[v].inst)
    /\ UNCHANGED <<driver, l1, l2, image, failed>>

\* Mutant: only a right answer is used up.
RegetRight(v) ==
    /\ verify[v].at = "reget"
    /\ Go2(v, IF verify[v].result = "ok" /\ CacheHas(verify[v].inst) THEN "delete" ELSE "done",
           verify[v].result)
    /\ Warms(verify[v].inst)
    /\ UNCHANGED <<driver, l1, l2, image, failed>>

\* Store.Get(id, true): it deletes what it finds.
Reget(v) ==
    /\ verify[v].at = "reget"
    /\ Go2(v, IF CacheHas(verify[v].inst) THEN "delete" ELSE "done", verify[v].result)
    /\ Warms(verify[v].inst)
    /\ UNCHANGED <<driver, l1, l2, image, failed>>

Delete(v) ==
    /\ verify[v].at = "delete"
    /\ Go2(v, "done", verify[v].result)
    /\ l1' = IF driver = "redis" THEN l1 ELSE l1 \ {verify[v].inst}
    /\ l2' = (driver = "memory" /\ l2)
    /\ UNCHANGED <<driver, warming, image, failed>>

\* The cache fails: a read finds nothing, a delete is forgotten.
CacheFault(v) ==
    /\ verify[v].at \in {"probe", "reget", "delete"}
    /\ Go2(v, "done", IF verify[v].at = "probe" THEN "not_found" ELSE verify[v].result)
    /\ failed' = TRUE
    /\ UNCHANGED <<driver, l1, l2, warming, image>>

CaptchaNext ==
    \/ \E i \in Instances : Generate(i) \/ WarmUp(i) \/ Expire1(i)
    \/ Expire2
    \/ \E v \in Verifiers, i \in Instances, right \in BOOLEAN : VerifyCall(v, i, right)
    \/ \E v \in Verifiers : Probe(v) \/ Reget(v) \/ Delete(v) \/ CacheFault(v)

CaptchaSpec == CaptchaInit /\ [][CaptchaNext]_captchaVars

\* png.go 175-199, "void after verification": once a verification has ended, with
\* a right answer or a wrong one, none that is called later succeeds, if the cache
\* is a single one that did not fail.  (Two at once may both succeed; with the two
\* levels of "multi" a later one may.)
SpentStaysSpent ==
    driver # "multi" /\ ~ failed =>
        \A v \in Verifiers : verify[v].after => verify[v].result \in {"", "not_found"}
=============================================================================
