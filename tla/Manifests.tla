------------------------------ MODULE Manifests ------------------------------
(***************************************************************************)
(* The manifest.json of every feature: what it needs and what needs it     *)
(* (core features cannot be removed). Versions and directories are apart:  *)
(* see FeatureManager.                                                     *)
(***************************************************************************)

manifest(on, off) == [depends_on |-> on, depends_off |-> off]

account == manifest({"user"}, {})
article == manifest({"category", "term"}, {})
brand == manifest({"image"}, {"product"})
carrier == manifest({}, {"order-shipping"})
category == manifest({"image"}, {"article", "product"})
client == manifest({"place"}, {"order"})
cronHistory == manifest({}, {"core"})
discount == manifest({}, {"invoice", "order", "order-shipping"})
image == manifest({}, {"product", "category", "brand"})
invoice == manifest({"client", "order", "discount"}, {"payment"})
logData == manifest({}, {"core"})
logHistory == manifest({}, {"core"})
mailQueue == manifest({"template"}, {"core"})
orderShipping == manifest({"carrier", "order", "discount"}, {})
order == manifest({"client", "product"}, {"order-shipping", "invoice", "subscription", "payment"})
payment == manifest({"invoice"}, {})
permission == manifest({}, {"user-permission"})
place == manifest({}, {"client"})
product == manifest({"brand", "category", "term"}, {"order"})
subscription == manifest({"user", "order"}, {})
template == manifest({}, {"core", "mail-queue"})
term == manifest({}, {"article", "product"})
userPermission == manifest({"user", "permission"}, {})
user == manifest({}, {"core", "account", "subscription"})

\* Under their names. (Strings with a hyphen cannot be fields of a record.)
Manifest ==
    [f \in {"account", "article", "brand", "carrier", "category", "client", "cron-history",
            "discount", "image", "invoice", "log-data", "log-history", "mail-queue",
            "order-shipping", "order", "payment", "permission", "place", "product",
            "subscription", "template", "term", "user-permission", "user"} |->
        CASE f = "account" -> account [] f = "article" -> article [] f = "brand" -> brand
          [] f = "carrier" -> carrier [] f = "category" -> category [] f = "client" -> client
          [] f = "cron-history" -> cronHistory [] f = "discount" -> discount
          [] f = "image" -> image [] f = "invoice" -> invoice [] f = "log-data" -> logData
          [] f = "log-history" -> logHistory [] f = "mail-queue" -> mailQueue
          [] f = "order-shipping" -> orderShipping [] f = "order" -> order
          [] f = "payment" -> payment [] f = "permission" -> permission [] f = "place" -> place
          [] f = "product" -> product [] f = "subscription" -> subscription
          [] f = "template" -> template [] f = "term" -> term
          [] f = "user-permission" -> userPermission [] f = "user" -> user]

\* The directory that a manifest names. Subscription's names another feature's.
relativePath == [f \in DOMAIN Manifest |-> IF f = "subscription" THEN "product" ELSE f]
=============================================================================
