---------------------------- MODULE MCPrivParent ----------------------------
(***************************************************************************)
(* Model-checking instance of login and privileged helper: configurations  *)
(* that between them take every branch that depends on a tunable.          *)
(***************************************************************************)
EXTENDS PrivParent

Plain == [one_process_model |-> FALSE, local_enable |-> TRUE, anonymous_enable |-> TRUE,
          ssl_enable |-> FALSE, implicit_ssl |-> FALSE, allow_anon_ssl |-> FALSE,
          force_local_logins_ssl |-> TRUE, force_anon_logins_ssl |-> FALSE,
          userlist |-> "off", no_anon_password |-> FALSE, max_login_fails |-> 2,
          session_support |-> FALSE, capabilities |-> TRUE, chown_uploads |-> FALSE,
          connect_from_port_20 |-> FALSE, guest_enable |-> FALSE,
          virtual_use_local_privs |-> FALSE, chroot_local_user |-> FALSE,
          passwd_chroot_enable |-> FALSE, user_config_dir |-> FALSE,
          chroot_list_enable |-> FALSE, async_abor_enable |-> FALSE]

MCConfigs ==
    {Plain,
     [Plain EXCEPT !.userlist = "deny", !.session_support = TRUE, !.no_anon_password = TRUE],
     [Plain EXCEPT !.userlist = "allow", !.guest_enable = TRUE, !.connect_from_port_20 = TRUE,
                   !.user_config_dir = TRUE],
     [Plain EXCEPT !.ssl_enable = TRUE, !.chown_uploads = TRUE, !.session_support = TRUE,
                   !.allow_anon_ssl = TRUE],
     [Plain EXCEPT !.ssl_enable = TRUE, !.implicit_ssl = TRUE, !.guest_enable = TRUE,
                   !.virtual_use_local_privs = TRUE, !.chroot_local_user = TRUE,
                   !.passwd_chroot_enable = TRUE],
     [Plain EXCEPT !.ssl_enable = TRUE, !.force_anon_logins_ssl = TRUE,
                   !.force_local_logins_ssl = FALSE, !.capabilities = FALSE,
                   !.connect_from_port_20 = TRUE],
     [Plain EXCEPT !.one_process_model = TRUE, !.local_enable = FALSE, !.chown_uploads = TRUE],
     [Plain EXCEPT !.one_process_model = TRUE, !.local_enable = FALSE, !.capabilities = FALSE],
     [Plain EXCEPT !.anonymous_enable = FALSE, !.session_support = TRUE,
                   !.chroot_list_enable = TRUE],
     [Plain EXCEPT !.anonymous_enable = FALSE, !.ssl_enable = TRUE, !.max_login_fails = 1],
     [Plain EXCEPT !.ssl_enable = TRUE, !.no_anon_password = TRUE, !.allow_anon_ssl = TRUE,
                   !.local_enable = FALSE, !.async_abor_enable = TRUE, !.max_login_fails = 1]}

ClearConfigs == {[Plain EXCEPT !.anonymous_enable = FALSE, !.ssl_enable = TRUE]}
TLSConfigs == {[Plain EXCEPT !.ssl_enable = TRUE, !.max_login_fails = 1]}
=============================================================================
