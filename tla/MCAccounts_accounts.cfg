\* The default admin, another user, two requests at a time.
SPECIFICATION Spec
CONSTANTS
    NoRow = NoRow
    Names = {admin, ann}
    Emails = {mail, ann_mail}
    Passwords = {initial, strong, weak}
    Long = {initial, strong}
    Admin = admin
    AdminEmail = mail
    Initial = initial
    Requests = {r1, r2}
INVARIANTS
    RotationFirst
    AdminThere
PROPERTIES
    RowsKept
CHECK_DEADLOCK FALSE
