------------------------------ MODULE DataSets ------------------------------
(***************************************************************************)
(* The data sets of the served model: the configured ones and those        *)
(* clients define and delete (define_nvl, delete_nvl and delete_dataset of *)
(* server/handler.rs).  Their members are data attributes and the objects  *)
(* of service tracking.                                                    *)
(***************************************************************************)
EXTENDS Integers, FiniteSets

CONSTANTS
  DsName,      \* data set references, LD/LN$DS
  Member,      \* data set members
  DsMembers,   \* the members a data set of each name has
  Configured   \* data sets of the configuration, which clients cannot delete

NoDs == "no data set"   \* an empty DatSet

ASSUME DsAssumption == Configured \subseteq DsName /\ DsMembers \in [DsName -> SUBSET Member]
                       /\ NoDs \notin DsName

VARIABLE dsets   \* the data sets that exist

\* resolve_data_set, without the members: a DatSet names a data set there is.
resolves(d) == d \in dsets

\* Creates a deletable data set; one of that name must not exist.
define_nvl(d) == d \notin dsets /\ dsets' = dsets \cup {d}

\* A bug: a data set goes although a control block names it.
delete_nvl_Used(ds, used) == dsets' = dsets \ (ds \ Configured)

\* delete_nvl: each name of the request in turn, those that exist, were
\* defined by a client and that no control block names ("used") going.
delete_nvl(ds, used) == dsets' = dsets \ ((ds \ Configured) \ used)

DsTypeOK == Configured \subseteq dsets /\ dsets \subseteq DsName
=============================================================================
