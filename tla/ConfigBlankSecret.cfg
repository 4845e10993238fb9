SPECIFICATION Spec
CONSTANTS
    Clients = {c1, c2}
    Secrets = {s1, s2}
    None = None
    Torn = Torn
    Plaintext = TRUE
PROPERTY BlankKeeps
