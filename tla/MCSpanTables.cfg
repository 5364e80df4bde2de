SPECIFICATION SpanSpec
CONSTANTS
  r1 = r1
  r2 = r2
  t1 = t1
  m1 = m1
  m2 = m2
  m3 = m3
  t3 = t3
  s1 = s1
  Nothing = Nothing
  Runs = {r1, r2}
  Steps = {t1, m1, m2, m3, t3}
  Tools = {t1, t3}
  Sessions = {s1}
  Addresses = {1, 2, 3}
  MaxPool = 3
  Frameworks = {"langgraph", "crewai", "openai_agents", "google_adk", "pydantic_ai", "claude_agent", "autogen", "openai", "anthropic"}
  Parent <- MCParent
  RunOf <- MCRunOf
  Session <- MCSession
CHECK_DEADLOCK FALSE
INVARIANTS
  SpansFollowRuns
