------------------------------ MODULE Endpoints ------------------------------
(***************************************************************************)
(* The back office of the features that are tables of rows: what each      *)
(* endpoint does, as the sequence of the steps between which another       *)
(* request may run. A step is a query, a statement or a call of Redis; the *)
(* module BackOffice gives each its meaning. The names are:                *)
(*                                                                         *)
(*   can          the policy's check of the permission                     *)
(*   findRow      findById: the row, or 404                                *)
(*   findKey      is the unique key in use, deleted rows included? 409     *)
(*   findOtherKey the same, leaving out the row at hand (for clients even   *)
(*                when the body gives no key)                              *)
(*   reviveKey    permissions only: a deleted row with the key is restored *)
(*   children     has the place a child that is not deleted? 400           *)
(*   retype       the same, when the update changes the type               *)
(*   findParent   categories only: is the parent there? 409                *)
(*   newParent    the same of an update, with what else may refuse it      *)
(*   endSessions  users only: the removal of the user's tokens, or 404     *)
(*   setStatus    the new status into the entity that was read, or 400     *)
(*   fetch        the row, or 404, inside CacheProvider.get                *)
(*   fetchTexts   the same, joined with the texts in one language          *)
(*   set          the rest of CacheProvider.get: store it in Redis         *)
(*   show         the row uncached, or 404                                 *)
(*   list         the page of a find                                       *)
(*   insert       save of a new entity; insertNode that of a category      *)
(*   load, write  save of an entity with an id: SELECT, then UPDATE of the *)
(*                columns that differ                                      *)
(*   content      the upsert of the texts, if the body gives any, in the   *)
(*                same transaction; the key of a category is one of them   *)
(*   pick         the query of delete(): the row, or 404                   *)
(*   softRemove   the UPDATE of deleted_at                                 *)
(*   pickAny      the query of restore(), deleted rows included, or 404    *)
(*   pickMany     log tables only: the rows to delete, or 404              *)
(*   removeMany   the DELETE of one of them after another                  *)
(*   count, order brands only: the count of the rows, the new order        *)
(*   commit       the end of the transaction                               *)
(*   findGrant, saveGrant, pickGrant, removeGrant, pickAnyGrant,           *)
(*   restoreGrant   the same for the permissions of a user                 *)
(***************************************************************************)
EXTENDS Sequences

\* RepositoryAbstract.delete and restore, which every feature shares.
softDelete == <<"pick", "softRemove", "commit">>
restore == <<"pickAny", "load", "write", "commit">>
hardDelete == <<"pickMany", "removeMany">>

\* What every feature's controller does alike.
Common == {"create", "read", "update", "delete", "restore", "find"}
common == [read |-> <<"can", "fetch", "set">>, delete |-> <<"can">> \o softDelete,
           restore |-> <<"can">> \o restore, find |-> <<"can", "list">>]
-----------------------------------------------------------------------------
(* Per feature: the endpoints of its routes, the columns that its validator  *)
(* makes a body give, what matters of its table, and its handlers.           *)

\* brand, discount, place and template validate the body of an update like that
\* of a create, where all columns are required.
brandRoutes == Common \cup {"statusUpdate", "orderUpdate"}
brandValidator == [create |-> {{"key", "content"}}, update |-> {{"key", "content"}}]
brandEntity == [unique |-> TRUE, texts |-> TRUE, parent |-> FALSE]
brandRead == <<"can", "fetchTexts", "set">>
brandCreate == <<"findKey", "insert", "content", "commit">>
brandUpdate == <<"findRow", "findOtherKey", "load", "write", "content", "commit">>
brandStatus == <<"findRow", "setStatus", "load", "write", "commit">>
brandOrder == <<"count", "order">>
brandController ==
    [create |-> <<"can">> \o brandCreate, update |-> <<"can">> \o brandUpdate,
     statusUpdate |-> <<"can">> \o brandStatus, orderUpdate |-> <<"can">> \o brandOrder,
     read |-> brandRead, delete |-> common.delete, restore |-> common.restore,
     find |-> common.find]

carrierRoutes == Common
carrierValidator == [create |-> {{"key"}}, update |-> {{"key"}, {"state"}, {"key", "state"}}]
carrierEntity == [unique |-> TRUE, texts |-> FALSE, parent |-> FALSE]
carrierCreate == <<"findKey", "insert", "commit">>
carrierUpdate == <<"findOtherKey", "load", "write", "commit">>
carrierController ==
    [create |-> <<"can">> \o carrierCreate, update |-> <<"can">> \o carrierUpdate,
     read |-> common.read, delete |-> common.delete, restore |-> common.restore,
     find |-> common.find]

\* The read joins the names of places in a query of its own. The controller's
\* update reads the client itself, for its type. The validator of an update knows
\* no status. Bound: all clients are companies, whose key a create always gives.
clientRoutes == Common \cup {"statusUpdate"}
clientValidator == [create |-> {{"key"}}, update |-> {{"key"}, {}}]
clientEntity == [unique |-> TRUE, texts |-> FALSE, parent |-> FALSE]
clientRead == <<"can", "fetch", "set">>
clientCreate == <<"findKey", "insert", "commit">>
clientUpdate == <<"findOtherKey", "load", "write", "commit">>
clientStatus == <<"findRow", "setStatus", "load", "write", "commit">>
clientController ==
    [create |-> <<"can">> \o clientCreate, update |-> <<"can", "findRow">> \o clientUpdate,
     statusUpdate |-> <<"can">> \o clientStatus, read |-> clientRead, delete |-> common.delete,
     restore |-> common.restore, find |-> common.find]

discountRoutes == Common
discountValidator == [create |-> {{"key", "state"}}, update |-> {{"key", "state"}}]
discountEntity == [unique |-> FALSE, texts |-> FALSE, parent |-> FALSE]
discountCreate == <<"insert", "commit">>
discountUpdate == <<"findRow", "load", "write", "commit">>
discountController ==
    [create |-> <<"can">> \o discountCreate, update |-> <<"can">> \o discountUpdate,
     read |-> common.read, delete |-> common.delete, restore |-> common.restore,
     find |-> common.find]

\* The key of a place is its type; it need not be unique. Which types need a
\* parent is left open; none can be taken away.
placeRoutes == Common
placeValidator == [create |-> {{"key", "content"}, {"key", "parent", "content"}},
                   update |-> {{"key", "content"}, {"key", "parent", "content"}}]
placeEntity == [unique |-> FALSE, texts |-> TRUE, parent |-> TRUE]
placeRead == <<"can", "fetchTexts", "set">>
placeCreate == <<"insert", "content", "commit">>
placeUpdate == <<"findRow", "retype", "load", "write", "content", "commit">>
placeDelete == <<"children">> \o softDelete
placeController ==
    [create |-> <<"can">> \o placeCreate, update |-> <<"can">> \o placeUpdate,
     delete |-> <<"can">> \o placeDelete, read |-> placeRead, restore |-> common.restore,
     find |-> common.find]

\* The route of readPage is left out: after a read of no consequence (under a key
\* of its own, which only expires) it fails on a misspelt res.locals.outputder, so
\* that it never answers anything but an error and shows no row.
templateRoutes == Common
templateValidator == [create |-> {{"key", "state"}}, update |-> {{"key", "state"}}]
templateEntity == [unique |-> TRUE, texts |-> FALSE, parent |-> FALSE]
templateCreate == <<"findKey", "insert", "commit">>
templateUpdate == <<"findRow", "findOtherKey", "load", "write", "commit">>
templateController ==
    [create |-> <<"can">> \o templateCreate, update |-> <<"can">> \o templateUpdate,
     read |-> common.read, delete |-> common.delete, restore |-> common.restore,
     find |-> common.find]

permissionRoutes == Common
permissionValidator == [create |-> {{"key"}}, update |-> {{"key"}}]
permissionEntity == [unique |-> TRUE, texts |-> FALSE, parent |-> FALSE]
permissionCreate == <<"reviveKey", "insert", "commit">>
permissionUpdate == <<"findOtherKey", "load", "write", "commit">>
permissionController ==
    [create |-> <<"can">> \o permissionCreate, update |-> <<"can">> \o permissionUpdate,
     read |-> common.read, delete |-> common.delete, restore |-> common.restore,
     find |-> common.find]

\* The key of a category is the slug of its texts (all categories here are of one
\* type). An update never writes its parent: what reads the category does not
\* load it. Its delete, restore and statusUpdate are those of module Category.
categoryRoutes == {"create", "read", "update", "find"}
categoryValidator == [create |-> {{"key", "content"}, {"key", "content", "parent"}},
                      update |-> {{"key", "content"}, {"parent"}, {"key", "content", "parent"}}]
categoryEntity == [unique |-> TRUE, texts |-> TRUE, parent |-> TRUE]
categoryRead == <<"can", "fetchTexts", "set">>
categoryCreate == <<"findParent", "insertNode", "findOtherKey", "content", "commit">>
categoryUpdate == <<"findRow", "newParent", "findOtherKey", "content", "commit">>
categoryController ==
    [create |-> <<"can">> \o categoryCreate, read |-> categoryRead,
     update |-> <<"can">> \o categoryUpdate, find |-> <<"can", "list">>]

\* The key of a user is the address, which an update may leave out. The sessions
\* that an update ends are those of module UserRecords, as is what the address and
\* the password lead to.
userRoutes == Common \cup {"statusUpdate"}
userValidator == [create |-> {{"key"}, {"key", "state"}}, update |-> {{"key"}, {}}]
userEntity == [unique |-> TRUE, texts |-> FALSE, parent |-> FALSE]
userCreate == <<"findKey", "insert", "commit">>
userUpdate == <<"findRow", "findOtherKey", "endSessions", "load", "write", "commit">>
userStatus == <<"findRow", "setStatus", "load", "write", "commit">>
userController ==
    [create |-> <<"can">> \o userCreate, update |-> <<"can">> \o userUpdate,
     statusUpdate |-> <<"can">> \o userStatus, read |-> common.read, delete |-> common.delete,
     restore |-> common.restore, find |-> common.find]

\* The rows of logs, of histories and of the mail queue are written by the
\* server itself. The history of changes is the one that is read uncached.
LogEntity == [unique |-> FALSE, texts |-> FALSE, parent |-> FALSE]
LogRoutes == {"read", "delete", "find"}
logDataController ==
    [delete |-> <<"can">> \o hardDelete, read |-> common.read, restore |-> common.restore,
     find |-> common.find]
cronHistoryController ==
    [delete |-> <<"can">> \o hardDelete, read |-> common.read, restore |-> common.restore,
     find |-> common.find]
mailQueueController ==
    [delete |-> <<"can">> \o hardDelete, read |-> common.read, restore |-> common.restore,
     find |-> common.find]
logHistoryController ==
    [read |-> <<"can", "show">>, delete |-> <<"can">> \o hardDelete,
     restore |-> common.restore, find |-> common.find]

\* The permissions of a user, which administrators grant and revoke. The ids of
\* one create run concurrently, each check then write, so each is a request.
userPermissionController ==
    [grant |-> <<"findGrant", "saveGrant">>, revoke |-> <<"pickGrant", "removeGrant">>,
     regrant |-> <<"pickAnyGrant", "restoreGrant">>]
-----------------------------------------------------------------------------
Logs == {"log_data", "cron_history", "mail_queue", "log_history"}

\* The features a configuration can choose from.
Controllers ==
    [brand |-> brandController, carrier |-> carrierController,
     client |-> clientController, discount |-> discountController,
     place |-> placeController, template |-> templateController,
     permission |-> permissionController, category |-> categoryController,
     user |-> userController, log_data |-> logDataController,
     cron_history |-> cronHistoryController, mail_queue |-> mailQueueController,
     log_history |-> logHistoryController]
Routes ==
    [brand |-> brandRoutes, carrier |-> carrierRoutes, client |-> clientRoutes,
     discount |-> discountRoutes, place |-> placeRoutes, template |-> templateRoutes,
     permission |-> permissionRoutes, category |-> categoryRoutes,
     user |-> userRoutes, log_data |-> LogRoutes, cron_history |-> LogRoutes,
     mail_queue |-> LogRoutes, log_history |-> LogRoutes]
Validators ==
    [brand |-> brandValidator, carrier |-> carrierValidator, client |-> clientValidator,
     discount |-> discountValidator, place |-> placeValidator,
     template |-> templateValidator, permission |-> permissionValidator,
     category |-> categoryValidator, user |-> userValidator]
Entities ==
    [brand |-> brandEntity, carrier |-> carrierEntity, client |-> clientEntity,
     discount |-> discountEntity, place |-> placeEntity, template |-> templateEntity,
     permission |-> permissionEntity, category |-> categoryEntity,
     user |-> userEntity, log_data |-> LogEntity, cron_history |-> LogEntity,
     mail_queue |-> LogEntity, log_history |-> LogEntity]

\* The reads of these build the key of the cache from res.locals.id, which nothing
\* sets, so that all rows of the table share one entry.
Unkeyed == {"client", "discount"}

\* The subscribers of these tell the cache and the history of every change; the
\* log tables have none that does.
Announcing == DOMAIN Controllers \ Logs

\* The permission that the policy asks for: restore counts as delete, and every
\* change of a row as update.
Needs(op) == CASE op = "restore" -> "delete"
               [] op \in {"statusUpdate", "orderUpdate"} -> "update"
               [] OTHER -> op
Permissions == {"create", "read", "update", "delete", "find"}

\* What a request runs: the authentication reads the permissions first. Those who
\* change the permissions of others are taken to have theirs.
Auth == <<"fetchPerms", "setPerms">>
GrantOps == DOMAIN userPermissionController
Script(f, op) == IF op \in GrantOps THEN userPermissionController[op]
                 ELSE Auth \o Controllers[f][op]
=============================================================================
