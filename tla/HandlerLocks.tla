----------------------------- MODULE HandlerLocks -----------------------------
(***************************************************************************)
(* The lock scripts of mvt-rs's handlers (see RwLocks): what each handler, *)
(* with the middleware before it and the functions it calls, takes and     *)
(* drops of the four in-memory states.                                     *)
(***************************************************************************)
EXTENDS Naturals, Sequences

CONSTANTS catalog, categories, auth, styles  \* the RwLocks of main.rs

Read(l) == [do |-> "read", lock |-> l, back |-> 0]
Write(l) == [do |-> "write", lock |-> l, back |-> 0]

\* A guard that lives in one statement, in a block of its own, or up to `drop`.
Glance(l) == <<Read(l), [do |-> "drop", lock |-> l, back |-> 1]>>
Replace(l) == <<Write(l), [do |-> "drop", lock |-> l, back |-> 1]>>

\* is_authenticated, and the user itself.
get_session_data == Glance(auth) \o Glance(auth)

\* The middleware before every page and form of /admin.
require_user_admin == Glance(auth)

\* Tokens and basic auth take one read; a session takes two.
get_request_user == get_session_data

\* Layers open to some groups only: the guard lives to the end of the function,
\* which looks up the session under it.
validate_user_groups ==
    <<Read(auth)>> \o get_session_data \o <<[do |-> "drop", lock |-> auth, back |-> 5]>>

-----------------------------------------------------------------------------
\* Tiles and TileJSON; of several layers, those of two that are restricted.
open_tile == Glance(catalog) \o get_request_user
restricted_tile == Glance(catalog) \o get_request_user \o validate_user_groups
composite_tile ==
    get_request_user \o Glance(catalog) \o validate_user_groups \o validate_user_groups
category_tile == composite_tile
tilejson_layer == Glance(catalog) \o validate_user_groups
tilejson_index == Glance(catalog) \o validate_user_groups \o validate_user_groups

\* The pages for everybody: they know the user, and the table shows the catalog.
public_page == get_session_data
map_page == get_session_data \o Glance(catalog)
catalog_table == <<Read(catalog)>>
login_form == <<Read(auth)>>

\* The document of a style and its legend.
style_document == Glance(styles)

\* The pages of /admin.
admin_page == require_user_admin \o get_session_data
users_page == admin_page \o <<Read(auth)>>
groups_page == admin_page \o <<Read(auth)>>
categories_page == admin_page \o <<Read(categories)>>
style_page == admin_page \o <<Read(categories)>> \o Glance(catalog)
edit_layer_page == admin_page \o <<Read(categories), Read(catalog), Read(auth)>>
new_layer_page == require_user_admin \o <<Read(categories), Read(auth)>> \o get_session_data

\* The forms that create and update a layer, and the same two over the API.
layer_form == require_user_admin \o <<Read(auth), Write(catalog)>>
layer_api == Glance(auth) \o <<Write(catalog)>>

\* Publish, unpublish, delete a layer.  Here and below the forms of /admin and the
\* API share a script, without the guard of require_user_admin, which is gone
\* before the handler starts.
layer_switch == <<Write(catalog)>>
clear_cache == Glance(catalog)

\* Users and groups: every edit of either, a new password, a login over the API.
auth_edit == <<Write(auth)>>
change_password == <<Write(auth)>>
update_group == Glance(auth) \o <<Write(auth)>>
delete_group == Glance(auth) \o Glance(catalog) \o <<Write(auth)>>

new_category == <<Write(categories)>>
update_category == <<Write(categories), Write(catalog)>> \o Replace(styles)
delete_category == Glance(catalog) \o Glance(styles) \o <<Write(categories)>>

\* A style is written to SQLite, then all of them are read back and swapped in.
reload_styles_cache == Replace(styles)

\* The watcher's swap.
apply_snapshot ==
    Replace(catalog) \o Replace(categories) \o Replace(auth) \o Replace(styles)

-----------------------------------------------------------------------------
\* The handlers that take a lock only while what they hold is ahead of it in the
\* order categories, catalog, auth and styles.
OrderedScript ==
    [open_tile |-> open_tile, public_page |-> public_page, map_page |-> map_page,
     catalog_table |-> catalog_table, login_form |-> login_form,
     style_document |-> style_document, admin_page |-> admin_page,
     users_page |-> users_page, groups_page |-> groups_page,
     categories_page |-> categories_page, style_page |-> style_page,
     edit_layer_page |-> edit_layer_page, layer_api |-> layer_api,
     layer_switch |-> layer_switch, clear_cache |-> clear_cache, auth_edit |-> auth_edit,
     change_password |-> change_password, update_group |-> update_group,
     delete_group |-> delete_group, new_category |-> new_category,
     update_category |-> update_category, delete_category |-> delete_category,
     reload_styles_cache |-> reload_styles_cache, apply_snapshot |-> apply_snapshot]

\* The handlers that do not.
OtherScript ==
    [restricted_tile |-> restricted_tile, composite_tile |-> composite_tile,
     category_tile |-> category_tile, tilejson_layer |-> tilejson_layer,
     tilejson_index |-> tilejson_index, new_layer_page |-> new_layer_page,
     layer_form |-> layer_form]

HandlerScript ==
    [h \in DOMAIN OrderedScript \cup DOMAIN OtherScript |->
        IF h \in DOMAIN OrderedScript THEN OrderedScript[h] ELSE OtherScript[h]]

=============================================================================
